---- MODULE Spec2Model ----
(***************************************************************************)
(* State-machine model of the anisette-js AArch64 user-space emulation     *)
(* layer: bump allocators, guest memory, ELF loader and relocator, import  *)
(* dispatch, libc/dl/stat shims and the host->guest call helper.           *)
(*                                                                         *)
(* 64-bit machine words are kept at their full width.  A u64 is a tuple   *)
(* <<a, b, c, d>> of four 16-bit limbs, most significant first, so that   *)
(* the value is a*2^48 + b*2^32 + c*2^16 + d and every wrap of the Rust    *)
(* code (wrapping_add, release-build overflow) is computed exactly.        *)
(***************************************************************************)
EXTENDS Integers, Sequences, FiniteSets, TLC

---------------------------------------------------------------------------
(* u64 arithmetic on limbs                                                 *)

Limb == 2^16

U64Zero == <<0, 0, 0, 0>>
U64One == <<0, 0, 0, 1>>

\* F applied to the value of v, with v evaluated once: `let x = v; F(x)`
Bind(v, F(_)) == CHOOSE y \in {F(x) : x \in {v}} : TRUE
U64Max == <<Limb - 1, Limb - 1, Limb - 1, Limb - 1>>

\* a natural number below 2^31 as a u64
U64FromNat(n) == <<0, 0, n \div Limb, n % Limb>>

U64IsSmall(x) == x[1] = 0 /\ x[2] = 0 /\ x[3] < 2^14

\* the value of a small u64 as a natural number (defined when U64IsSmall)
U64ToNat(x) == x[3] * Limb + x[4]

\* the limb sums of x + y with carries, least significant limb last
U64Sum(x, y) ==
    LET s4 == x[4] + y[4]
        s3 == x[3] + y[3] + (s4 \div Limb)
        s2 == x[2] + y[2] + (s3 \div Limb)
        s1 == x[1] + y[1] + (s2 \div Limb)
    IN  <<s1, s2, s3, s4>>

\* limb sums or differences reduced modulo 2^64
U64Wrap(s) == <<s[1] % Limb, s[2] % Limb, s[3] % Limb, s[4] % Limb>>

\* u64::wrapping_add
wrapping_add(x, y) == U64Wrap(U64Sum(x, y))

\* x + y does not fit 64 bits (`+` panics under overflow checks)
AddOverflows(x, y) == U64Sum(x, y)[1] >= Limb

U64Not(x) == <<Limb - 1 - x[1], Limb - 1 - x[2], Limb - 1 - x[3], Limb - 1 - x[4]>>

\* two's complement negation
U64Neg(x) == wrapping_add(U64Not(x), U64One)

\* the limb differences of x - y with borrows (a borrow is a carry of -1)
U64Diff(x, y) ==
    LET d4 == x[4] - y[4]
        d3 == x[3] - y[3] + (d4 \div Limb)
        d2 == x[2] - y[2] + (d3 \div Limb)
        d1 == x[1] - y[1] + (d2 \div Limb)
    IN  <<d1, d2, d3, d4>>

\* u64::wrapping_sub
wrapping_sub(x, y) == U64Wrap(U64Diff(x, y))

\* x < y, as the borrow out of x - y
U64Lt(x, y) == U64Diff(x, y)[1] < 0

\* the last address of the range [start, start + len), modulo 2^64
U64Last(start, len) == wrapping_sub(wrapping_add(start, len), U64One)

U64Le(x, y) == ~U64Lt(y, x)

\* u64::saturating_add
saturating_add(x, y) == IF AddOverflows(x, y) THEN U64Max ELSE wrapping_add(x, y)

\* u64::saturating_sub
saturating_sub(x, y) == IF U64Lt(x, y) THEN U64Zero ELSE wrapping_sub(x, y)

\* u64::max
U64MaxOf(x, y) == IF U64Lt(x, y) THEN y ELSE x

\* x * k mod 2^64 for a multiplier k below 2^15
U64MulSmall(x, k) ==
    LET p4 == x[4] * k
        p3 == x[3] * k + (p4 \div Limb)
        p2 == x[2] * k + (p3 \div Limb)
        p1 == x[1] * k + (p2 \div Limb)
    IN  <<p1 % Limb, p2 % Limb, p3 % Limb, p4 % Limb>>

\* value & !(align - 1) for a power of two align <= 2^16
ClearLowBits(x, align) == <<x[1], x[2], x[3], x[4] - (x[4] % align)>>

\* the half-open ranges [a, a + la) and [b, b + lb) share an address
\* (ranges that do not wrap around 2^64)
RangesOverlap(a, la, b, lb) ==
    /\ la # U64Zero
    /\ lb # U64Zero
    /\ U64Le(a, U64Last(b, lb))
    /\ U64Le(b, U64Last(a, la))

---------------------------------------------------------------------------
(* constants.rs                                                            *)

PAGE_SIZE == 4096

RETURN_ADDRESS == <<0, 0, \hDEAD, 0>>
STACK_ADDRESS == <<0, 0, \hF000, 0>>
STACK_SIZE == <<0, 0, \h0010, 0>>

MALLOC_ADDRESS == <<0, 0, \h6000, 0>>
MALLOC_SIZE == <<0, 0, \h0100, 0>>

IMPORT_ADDRESS == <<0, 0, \hA000, 0>>
IMPORT_SIZE == <<0, 0, 0, \h1000>>
IMPORT_LIBRARY_STRIDE == <<0, 0, \h0100, 0>>
IMPORT_LIBRARY_COUNT == 10

TEMP_ALLOC_BASE == <<0, \h0008, 0, 0>>
TEMP_ALLOC_SIZE == <<0, 0, \h1000, 0>>
LIB_ALLOC_BASE == <<0, 0, \h0010, 0>>
LIB_ALLOC_SIZE == <<0, 0, \h9000, 0>>
LIB_RESERVATION_SIZE == <<0, 0, \h1000, 0>>

O_WRONLY == 1
O_RDWR == 2
O_ACCMODE == 3
O_CREAT == 64
O_NOFOLLOW == 32768

ENOENT == 2

\* ARG_REGS.len(): X0..X28
ARG_REGS_LEN == 29

---------------------------------------------------------------------------
(* util.rs                                                                 *)

\* `value + align - 1` leaves the u64 range: a panic with overflow checks
\* on, a wrap without
align_up_overflows(value, align) ==
    align # 0 /\ AddOverflows(value, U64FromNat(align))

\* align_up that forgets to round
align_up_unrounded(value, align) == value

\* util::align_up, as the wrapping build computes it
align_up(value, align) ==
    IF align = 0 THEN value
    ELSE ClearLowBits(wrapping_sub(wrapping_add(value, U64FromNat(align)), U64One), align)

\* util::align_down
align_down(value, align) ==
    IF align = 0 THEN value ELSE ClearLowBits(value, align)

\* An i64 addend is kept as its two's complement u64 bit pattern.
I64IsNegative(a) == a[1] >= 2^15

I64Min == <<2^15, 0, 0, 0>>

\* `-addend` overflows i64 for i64::MIN
add_i64_overflows(addend) == addend = I64Min

\* add_i64 that forgets the addend
add_i64_without_addend(base, addend) == base

\* util::add_i64, as the wrapping build computes it: (-addend) as u64 is the
\* two's complement negation of the bit pattern
add_i64(base, addend) ==
    IF ~I64IsNegative(addend)
    THEN wrapping_add(base, addend)
    ELSE wrapping_sub(base, U64Neg(addend))

---------------------------------------------------------------------------
(* Strings are sequences of bytes (ASCII), as they lie in guest memory.    *)

\* the symbol names matched by handle_stub_by_name
Sym ==
    [ malloc |-> <<109, 97, 108, 108, 111, 99>>,
      free |-> <<102, 114, 101, 101>>,
      strncpy |-> <<115, 116, 114, 110, 99, 112, 121>>,
      mkdir |-> <<109, 107, 100, 105, 114>>,
      umask |-> <<117, 109, 97, 115, 107>>,
      chmod |-> <<99, 104, 109, 111, 100>>,
      lstat |-> <<108, 115, 116, 97, 116>>,
      fstat |-> <<102, 115, 116, 97, 116>>,
      open |-> <<111, 112, 101, 110>>,
      ftruncate |-> <<102, 116, 114, 117, 110, 99, 97, 116, 101>>,
      read |-> <<114, 101, 97, 100>>,
      write |-> <<119, 114, 105, 116, 101>>,
      close |-> <<99, 108, 111, 115, 101>>,
      dlopen |-> <<100, 108, 111, 112, 101, 110>>,
      dlsym |-> <<100, 108, 115, 121, 109>>,
      dlclose |-> <<100, 108, 99, 108, 111, 115, 101>>,
      pthread_once |-> <<112, 116, 104, 114, 101, 97, 100, 95, 111, 110, 99, 101>>,
      pthread_create |-> <<112, 116, 104, 114, 101, 97, 100, 95, 99, 114, 101, 97, 116, 101>>,
      pthread_mutex_lock |-> <<112, 116, 104, 114, 101, 97, 100, 95, 109, 117, 116, 101, 120, 95, 108, 111, 99, 107>>,
      pthread_rwlock_unlock |-> <<112, 116, 104, 114, 101, 97, 100, 95, 114, 119, 108, 111, 99, 107, 95, 117, 110, 108, 111, 99, 107>>,
      pthread_rwlock_destroy |-> <<112, 116, 104, 114, 101, 97, 100, 95, 114, 119, 108, 111, 99, 107, 95, 100, 101, 115, 116, 114, 111, 121>>,
      pthread_rwlock_wrlock |-> <<112, 116, 104, 114, 101, 97, 100, 95, 114, 119, 108, 111, 99, 107, 95, 119, 114, 108, 111, 99, 107>>,
      pthread_rwlock_init |-> <<112, 116, 104, 114, 101, 97, 100, 95, 114, 119, 108, 111, 99, 107, 95, 105, 110, 105, 116>>,
      pthread_mutex_unlock |-> <<112, 116, 104, 114, 101, 97, 100, 95, 109, 117, 116, 101, 120, 95, 117, 110, 108, 111, 99, 107>>,
      pthread_rwlock_rdlock |-> <<112, 116, 104, 114, 101, 97, 100, 95, 114, 119, 108, 111, 99, 107, 95, 114, 100, 108, 111, 99, 107>>,
      gettimeofday |-> <<103, 101, 116, 116, 105, 109, 101, 111, 102, 100, 97, 121>>,
      errno |-> <<95, 95, 101, 114, 114, 110, 111>>,
      system_property_get |-> <<95, 95, 115, 121, 115, 116, 101, 109, 95, 112, 114, 111, 112, 101, 114, 116, 121, 95, 103, 101, 116>>,
      arc4random |-> <<97, 114, 99, 52, 114, 97, 110, 100, 111, 109>> ]

\* "./anisette"
PATH_ANISETTE == <<46, 47, 97, 110, 105, 115, 101, 116, 116, 101>>

\* "./anisette/adi.pb"
PATH_ADI_PB == <<46, 47, 97, 110, 105, 115, 101, 116, 116, 101, 47, 97, 100, 105, 46, 112, 98>>

\* "/etc/passwd", a host file the guest has no business with
PATH_ETC_PASSWD == <<47, 101, 116, 99, 47, 112, 97, 115, 115, 119, 100>>

\* '/'
SLASH == 47

\* String::from_utf8_lossy on bytes that are ASCII or not part of any
\* well-formed sequence: every byte above 127 becomes U+FFFD
from_utf8_lossy(bytes) == [i \in 1..Len(bytes) |-> IF bytes[i] < 128 THEN bytes[i] ELSE 65533]

---------------------------------------------------------------------------
(* Guest memory (the emulator capability the core consumes)                *)
(* `mapped` is a set of regions [start, len]; `mem` is the list of writes  *)
(* in time order.  A write [start, len, at, data, pad] is a buffer of len  *)
(* bytes: `data` at offset `at`, and everywhere else the pattern `pad`     *)
(* (of 1 or 4 bytes) repeated from offset 0.  Mapped memory that was never *)
(* written reads as 0.                                                     *)

RegionLast(r) == U64Last(r.start, r.len)

InRegion(r, a) ==
    r.len # U64Zero /\ U64Le(r.start, a) /\ U64Le(a, RegionLast(r))

\* the region [start, start + len) runs past 2^64
RangeWraps(start, len) ==
    len # U64Zero /\ U64Lt(U64Last(start, len), start)

\* every address from a to last is mapped (mapped regions are disjoint)
RECURSIVE CoveredFrom(_, _, _)
CoveredFrom(mp, a, last) ==
    \E r \in mp :
        /\ InRegion(r, a)
        /\ \/ U64Le(last, RegionLast(r))
           \/ CoveredFrom(mp, wrapping_add(r.start, r.len), last)

\* the whole range [address, address + len) is mapped (an empty range is)
IsMapped(mp, address, len) ==
    \/ len = U64Zero
    \/ /\ ~RangeWraps(address, len)
       /\ CoveredFrom(mp, address, U64Last(address, len))

\* uc.mem_map: "ok", "ARG" (empty, unaligned or wrapping range) or "MAP"
\* (the range touches a mapped region)
mem_map_status(mp, address, len) ==
    IF \/ len = U64Zero
       \/ RangeWraps(address, len)
       \/ ~(address[4] % PAGE_SIZE = 0)
       \/ ~(len[4] % PAGE_SIZE = 0)
    THEN "ARG"
    ELSE IF \E r \in mp : RangesOverlap(r.start, r.len, address, len)
    THEN "MAP"
    ELSE "ok"

\* a plain byte string as a write buffer
Bytes(data) == [len |-> U64FromNat(Len(data)), at |-> 0, data |-> data, pad |-> <<0>>]

\* vec![byte; len] with data copied in at offset `at`
Filled(len, at, data, byte) == [len |-> len, at |-> at, data |-> data, pad |-> <<byte>>]

\* the write w hides the earlier write r completely
Hides(w, r) ==
    /\ U64Le(w.start, r.start)
    /\ U64Le(RegionLast(r), RegionLast(w))

\* the memory after writing buffer buf at address (the range is mapped)
mem_after_write(m, address, buf) ==
    LET w == [start |-> address, len |-> buf.len, at |-> buf.at,
              data |-> buf.data, pad |-> buf.pad]
    IN  IF buf.len = U64Zero THEN m
        ELSE Append(SelectSeq(m, LAMBDA r : ~Hides(w, r)), w)

\* the byte of write w at address a (a lies in w)
ByteOfWrite(w, a) ==
    Bind(wrapping_sub(a, w.start), LAMBDA off :
        IF /\ U64IsSmall(off)
           /\ U64ToNat(off) >= w.at
           /\ U64ToNat(off) < w.at + Len(w.data)
        THEN w.data[U64ToNat(off) - w.at + 1]
        ELSE w.pad[(off[4] % Len(w.pad)) + 1])

\* the byte at address a: that of the latest write covering it
RECURSIVE ByteFrom(_, _, _)
ByteFrom(m, i, a) ==
    IF i = 0 THEN 0
    ELSE IF InRegion(m[i], a) THEN ByteOfWrite(m[i], a)
    ELSE ByteFrom(m, i - 1, a)

ByteAt(m, a) == ByteFrom(m, Len(m), a)

\* the n bytes at address a
BytesAt(m, a, n) == [i \in 1..n |-> ByteAt(m, wrapping_add(a, U64FromNat(i - 1)))]

\* little-endian bytes of a u64 and back
U64ToLeBytes(x) ==
    << x[4] % 256, x[4] \div 256, x[3] % 256, x[3] \div 256,
       x[2] % 256, x[2] \div 256, x[1] % 256, x[1] \div 256 >>

U64FromLeBytes(b) ==
    << b[7] + 256 * b[8], b[5] + 256 * b[6], b[3] + 256 * b[4], b[1] + 256 * b[2] >>

\* u32::to_le_bytes of a small value
U32ToLeBytes(n) == << n % 256, (n \div 256) % 256, (n \div 65536) % 256, n \div 16777216 >>

---------------------------------------------------------------------------
(* ELF images, as goblin parses them                                       *)
(* data: the file bytes; dynsyms: [len, at] with `at` the entries that are *)
(* not the filler entry (a defined symbol without a name, value 0);        *)
(* program_headers, dynrelas and pltrelocs in file order.  u64 fields are  *)
(* u64 values, r_addend the i64 bit pattern.                               *)

PT_LOAD == 1
PT_DYNAMIC == 2
R_AARCH64_ABS64 == 257
R_AARCH64_COPY == 1024
R_AARCH64_GLOB_DAT == 1025
R_AARCH64_JUMP_SLOT == 1026
R_AARCH64_RELATIVE == 1027

ImportSym(name) == [st_name |-> name, undef |-> TRUE, st_value |-> U64Zero]
DefinedSym(name, value) == [st_name |-> name, undef |-> FALSE, st_value |-> value]
FillerSym == DefinedSym(<<>>, U64Zero)

\* the i-th entry (from 0) of a dynamic symbol table
DynSym(table, i) == IF i \in DOMAIN table.at THEN table.at[i] ELSE FillerSym

Phdr(type, offset, vaddr, filesz, memsz) ==
    [p_type |-> type, p_offset |-> U64FromNat(offset), p_vaddr |-> vaddr,
     p_filesz |-> U64FromNat(filesz), p_memsz |-> memsz]

Rela(type, offset, sym, addend) ==
    [r_type |-> type, r_offset |-> U64FromNat(offset), r_sym |-> sym, r_addend |-> addend]

\* the i64 -n as a bit pattern
I64Neg(n) == U64Neg(U64FromNat(n))

FileBytes(n) == [i \in 1..n |-> 16 + i]

\* library names
LIB_STORESERVICES ==   \* "libstoreservicescore.so"
    <<108, 105, 98, 115, 116, 111, 114, 101, 115, 101, 114, 118, 105, 99, 101, 115, 99, 111, 114, 101, 46, 115, 111>>
LIB_COREADI ==         \* "libCoreADI.so"
    <<108, 105, 98, 67, 111, 114, 101, 65, 68, 73, 46, 115, 111>>
LIB_BIG == <<108, 105, 98, 98, 105, 103, 46, 115, 111>>                           \* "libbig.so"
LIB_BADRELOC == <<108, 105, 98, 98, 97, 100, 114, 101, 108, 111, 99, 46, 115, 111>>   \* "libbadreloc.so"
LIB_CLASH == <<108, 105, 98, 99, 108, 97, 115, 104, 46, 115, 111>>                \* "libclash.so"
LIB_E == <<108, 105, 98, 101, 46, 115, 111>>                                       \* "libe.so"
LIB_F == <<108, 105, 98, 102, 46, 115, 111>>                                       \* "libf.so"
LIB_G == <<108, 105, 98, 103, 46, 115, 111>>                                       \* "libg.so"
LIB_NONE == <<108, 105, 98, 110, 111, 110, 101, 46, 115, 111>>            \* "libnone.so"
LIB_SHARED == <<108, 105, 98, 115, 104, 97, 114, 101, 100, 46, 115, 111>>   \* "libshared.so"
LIB_STRADDLE == <<108, 105, 98, 115, 116, 114, 97, 100, 100, 108, 101, 46, 115, 111>>   \* "libstraddle.so"
LIB_BADFILE == <<108, 105, 98, 98, 97, 100, 102, 105, 108, 101, 46, 115, 111>>   \* "libbadfile.so"
LIB_BADFIT == <<108, 105, 98, 98, 97, 100, 102, 105, 116, 46, 115, 111>>   \* "libbadfit.so"
LIB_SKIPPED == <<108, 105, 98, 115, 107, 105, 112, 112, 101, 100, 46, 115, 111>>   \* "libskipped.so"
LIB_HUGE == <<108, 105, 98, 104, 117, 103, 101, 46, 115, 111>>   \* "libhuge.so"
LIB_FAR == <<108, 105, 98, 102, 97, 114, 46, 115, 111>>   \* "libfar.so"
LIB_BADSYM == <<108, 105, 98, 98, 97, 100, 115, 121, 109, 46, 115, 111>>   \* "libbadsym.so"
LIB_GARBAGE == <<108, 105, 98, 103, 97, 114, 98, 97, 103, 101, 46, 115, 111>>   \* "libgarbage.so"

NAME_PRINTF == <<112, 114, 105, 110, 116, 102>>                       \* "printf"
NAME_ENTRY == <<83, 112, 104, 57, 56, 112, 97, 66, 99, 122>>          \* "Sph98paBcz"
NAME_HELPER == <<104, 101, 108, 112, 101, 114>>                       \* "helper"
NAME_LOAD_LIBRARY_WITH_PATH == <<107, 113, 53, 54, 103, 115, 103, 72, 71, 54>>    \* "kq56gsgHG6"
NAME_SET_PROVISIONING_PATH == <<110, 102, 57, 50, 110, 103, 97, 75, 57, 50>>    \* "nf92ngaK92"
NAME_GET_LOGIN_CODE == <<97, 115, 108, 103, 109, 117, 105, 98, 97, 117>>    \* "aslgmuibau"
NAME_PROVISIONING_START == <<114, 115, 101, 103, 118, 121, 114, 116, 56, 55>>    \* "rsegvyrt87"
NAME_PROVISIONING_END == <<117, 118, 53, 116, 54, 110, 104, 107, 117, 105>>    \* "uv5t6nhkui"
NAME_OTP_REQUEST == <<113, 105, 56, 54, 52, 57, 56, 53, 117, 48>>    \* "qi864985u0"

\* the entry points Adi::new resolves besides "Sph98paBcz", in table order
AdiExports ==
    << NAME_LOAD_LIBRARY_WITH_PATH, NAME_SET_PROVISIONING_PATH, NAME_GET_LOGIN_CODE,
       NAME_PROVISIONING_START, NAME_PROVISIONING_END, NAME_OTP_REQUEST >>

\* the imports of libstoreservicescore.so, by dynamic symbol index
StoreImports ==
    << Sym.malloc, Sym.free, Sym.strncpy, Sym.mkdir, Sym.umask, Sym.chmod,
       Sym.lstat, Sym.fstat, Sym.open, Sym.ftruncate, Sym.read, Sym.write,
       Sym.close, Sym.dlopen, Sym.dlsym, Sym.dlclose, Sym.pthread_once,
       Sym.pthread_create, Sym.pthread_mutex_lock, Sym.pthread_rwlock_unlock,
       Sym.pthread_rwlock_destroy, Sym.pthread_rwlock_wrlock,
       Sym.pthread_rwlock_init, Sym.pthread_mutex_unlock,
       Sym.pthread_rwlock_rdlock, Sym.gettimeofday, Sym.errno,
       Sym.system_property_get, Sym.arc4random, NAME_PRINTF >>

\* symbol 0 is the null symbol; 1..30 are imports; 31.. are defined
ElfStoreServices ==
    [ parses |-> TRUE,
      data |-> FileBytes(32),
      dynsyms |->
          [ len |-> 40,
            at |-> [i \in 0..39 |->
                      IF i = 0 THEN ImportSym(<<>>)
                      ELSE IF i <= 30 THEN ImportSym(StoreImports[i])
                      ELSE IF i = 31 THEN DefinedSym(NAME_ENTRY, <<0, 0, 0, \h1000>>)
                      ELSE IF i = 32 THEN DefinedSym(NAME_HELPER, <<0, 0, 0, \h1800>>)
                      ELSE IF i = 33 THEN DefinedSym(NAME_HELPER, <<0, 0, 0, \h1900>>)
                      ELSE DefinedSym(AdiExports[i - 33],
                                      <<0, 0, 0, \h1000 + (i - 33) * 256>>)] ],
      program_headers |->
          << Phdr(PT_LOAD, 0, U64Zero, 16, <<0, 0, 0, \h2000>>),
             Phdr(PT_DYNAMIC, 16, <<0, 0, 0, \h1000>>, 8, <<0, 0, 0, \h0100>>),
             Phdr(PT_LOAD, 16, <<0, 0, 0, \h3010>>, 8, <<0, 0, 0, \h0020>>) >>,
      dynrelas |->
          << Rela(R_AARCH64_ABS64, 256, 31, U64FromNat(8)),
             Rela(R_AARCH64_GLOB_DAT, 264, 1, U64Zero),
             Rela(R_AARCH64_RELATIVE, 272, 0, <<0, 0, 0, \h1234>>),
             Rela(R_AARCH64_RELATIVE, 280, 32, I64Neg(16)) >>,
      pltrelocs |->
          << Rela(R_AARCH64_JUMP_SLOT, 12304, 9, U64FromNat(5)),
             Rela(R_AARCH64_JUMP_SLOT, 12312, 1, U64Zero) >> ]

\* a small library; its ABS64 addends reach below 0 and wrap
ElfCoreAdi ==
    [ parses |-> TRUE,
      data |-> FileBytes(24),
      dynsyms |->
          [ len |-> 4,
            at |-> [i \in 0..3 |->
                      IF i = 0 THEN ImportSym(<<>>)
                      ELSE IF i = 1 THEN ImportSym(Sym.malloc)
                      ELSE IF i = 2 THEN DefinedSym(NAME_ENTRY, <<0, 0, 0, \h0040>>)
                      ELSE ImportSym(Sym.errno)] ],
      program_headers |-> << Phdr(PT_LOAD, 0, U64Zero, 24, <<0, 0, 0, \h1000>>) >>,
      dynrelas |->
          << Rela(R_AARCH64_ABS64, 128, 2, U64Not(U64Zero)),
             Rela(R_AARCH64_GLOB_DAT, 136, 2, I64Neg(2^30)),
             Rela(R_AARCH64_RELATIVE, 144, 1, I64Neg(2^30)) >>,
      pltrelocs |-> << Rela(R_AARCH64_JUMP_SLOT, 152, 1, I64Neg(1)) >> ]

\* more dynamic symbols than an import page has slots
ElfBig ==
    [ parses |-> TRUE,
      data |-> FileBytes(8),
      dynsyms |->
          [ len |-> 1026,
            at |-> (0 :> ImportSym(<<>>)) @@ (1 :> ImportSym(Sym.free))
                   @@ (1023 :> ImportSym(Sym.arc4random))
                   @@ (1024 :> ImportSym(Sym.malloc))
                   @@ (1025 :> DefinedSym(NAME_ENTRY, <<0, 0, 0, \h0010>>)) ],
      program_headers |-> << Phdr(PT_LOAD, 0, U64Zero, 8, <<0, 0, 0, \h1000>>) >>,
      dynrelas |-> << >>,
      pltrelocs |-> << Rela(R_AARCH64_JUMP_SLOT, 64, 1024, U64Zero) >> ]

\* its second relocation has a type the loader does not support
ElfBadReloc ==
    [ parses |-> TRUE,
      data |-> FileBytes(8),
      dynsyms |-> [ len |-> 2, at |-> (0 :> ImportSym(<<>>)) @@ (1 :> ImportSym(Sym.malloc)) ],
      program_headers |-> << Phdr(PT_LOAD, 0, U64Zero, 8, <<0, 0, 0, \h1000>>) >>,
      dynrelas |->
          << Rela(R_AARCH64_RELATIVE, 64, 0, U64FromNat(1)),
             Rela(R_AARCH64_COPY, 72, 1, U64Zero) >>,
      pltrelocs |-> << >> ]

\* two relocation entries whose 8 target bytes share addresses
ElfClash ==
    [ parses |-> TRUE,
      data |-> FileBytes(8),
      dynsyms |-> [ len |-> 2, at |-> (0 :> ImportSym(<<>>)) @@ (1 :> ImportSym(Sym.malloc)) ],
      program_headers |-> << Phdr(PT_LOAD, 0, U64Zero, 8, <<0, 0, 0, \h1000>>) >>,
      dynrelas |->
          << Rela(R_AARCH64_RELATIVE, 64, 0, <<\h0102, \h0304, \h0506, \h0708>>),
             Rela(R_AARCH64_GLOB_DAT, 68, 1, U64Zero) >>,
      pltrelocs |-> << >> ]

\* the smallest well-formed library
ElfPlain ==
    [ parses |-> TRUE,
      data |-> FileBytes(8),
      dynsyms |-> [ len |-> 1, at |-> (0 :> ImportSym(<<>>)) ],
      program_headers |-> << Phdr(PT_LOAD, 0, U64Zero, 8, <<0, 0, 0, \h1000>>) >>,
      dynrelas |-> << Rela(R_AARCH64_RELATIVE, 64, 0, U64FromNat(16)) >>,
      pltrelocs |-> << >> ]

\* relocation entries of type 0: at the first file bytes with a symbol
\* index out of range, at an unmapped address, and in the PLT table
ElfNone ==
    [ parses |-> TRUE,
      data |-> FileBytes(8),
      dynsyms |-> [ len |-> 1, at |-> (0 :> ImportSym(<<>>)) ],
      program_headers |-> << Phdr(PT_LOAD, 0, U64Zero, 8, <<0, 0, 0, \h0080>>) >>,
      dynrelas |->
          << Rela(0, 0, 5, U64FromNat(1)),
             Rela(0, 8192, 0, U64Zero),
             Rela(R_AARCH64_RELATIVE, 64, 0, U64FromNat(16)) >>,
      pltrelocs |-> << Rela(0, 64, 0, U64FromNat(3)) >> ]

\* two segments in page 0, a third one in pages 1 and 2
ElfShared ==
    [ parses |-> TRUE,
      data |-> FileBytes(24),
      dynsyms |-> [ len |-> 1, at |-> (0 :> ImportSym(<<>>)) ],
      program_headers |->
          << Phdr(PT_LOAD, 0, U64Zero, 8, <<0, 0, 0, \h0010>>),
             Phdr(PT_LOAD, 8, <<0, 0, 0, \h0800>>, 8, <<0, 0, 0, \h0020>>),
             Phdr(PT_LOAD, 16, <<0, 0, 0, \h1FF8>>, 8, <<0, 0, 0, \h0010>>) >>,
      dynrelas |-> << >>,
      pltrelocs |-> << >> ]

\* a second segment that begins in the page of the first and ends in the
\* next page
ElfStraddle ==
    [ parses |-> TRUE,
      data |-> FileBytes(16),
      dynsyms |-> [ len |-> 1, at |-> (0 :> ImportSym(<<>>)) ],
      program_headers |->
          << Phdr(PT_LOAD, 0, U64Zero, 8, <<0, 0, 0, \h0010>>),
             Phdr(PT_LOAD, 8, <<0, 0, 0, \h0FF8>>, 8, <<0, 0, 0, \h0010>>) >>,
      dynrelas |-> << >>,
      pltrelocs |-> << >> ]

\* a segment whose file slice ends behind the image
ElfBadFile ==
    [ parses |-> TRUE,
      data |-> FileBytes(8),
      dynsyms |-> [ len |-> 1, at |-> (0 :> ImportSym(<<>>)) ],
      program_headers |-> << Phdr(PT_LOAD, 4, U64Zero, 8, <<0, 0, 0, \h0020>>) >>,
      dynrelas |-> << >>,
      pltrelocs |-> << >> ]

\* a segment with more file bytes than its mapped pages have room for
ElfBadFit ==
    [ parses |-> TRUE,
      data |-> FileBytes(16),
      dynsyms |-> [ len |-> 1, at |-> (0 :> ImportSym(<<>>)) ],
      program_headers |-> << Phdr(PT_LOAD, 0, <<0, 0, 0, \h0FF8>>, 16, <<0, 0, 0, 8>>) >>,
      dynrelas |-> << >>,
      pltrelocs |-> << >> ]

\* headers the loader skips, with file slices behind the image: one that
\* is not PT_LOAD, and PT_LOAD headers with memsz 0
ElfSkipped ==
    [ parses |-> TRUE,
      data |-> FileBytes(8),
      dynsyms |-> [ len |-> 1, at |-> (0 :> ImportSym(<<>>)) ],
      program_headers |->
          << Phdr(PT_LOAD, 0, U64Zero, 8, <<0, 0, 0, \h0020>>),
             Phdr(PT_DYNAMIC, 100, <<0, 0, 0, \h5000>>, 50, <<0, 0, 0, \h0100>>),
             Phdr(PT_LOAD, 100, <<0, 0, 0, \h6000>>, 50, U64Zero),
             Phdr(PT_LOAD, 100, <<0, 0, 0, \h7010>>, 50, U64Zero) >>,
      dynrelas |-> << >>,
      pltrelocs |-> << >> ]

\* a segment with a file slice behind the image whose end address wraps
ElfHuge ==
    [ parses |-> TRUE,
      data |-> FileBytes(8),
      dynsyms |-> [ len |-> 1, at |-> (0 :> ImportSym(<<>>)) ],
      program_headers |-> << Phdr(PT_LOAD, 100, U64Zero, 50, U64Max) >>,
      dynrelas |-> << >>,
      pltrelocs |-> << >> ]

\* a segment whose file offset is 2^32
ElfFar ==
    [ parses |-> TRUE,
      data |-> FileBytes(8),
      dynsyms |-> [ len |-> 1, at |-> (0 :> ImportSym(<<>>)) ],
      program_headers |->
          << [Phdr(PT_LOAD, 0, U64Zero, 8, <<0, 0, 0, \h0020>>)
                 EXCEPT !.p_offset = <<0, 1, 0, 0>>] >>,
      dynrelas |-> << >>,
      pltrelocs |-> << >> ]

\* the blob registered under each name
\* a relocation entry whose symbol index is out of range
ElfBadSym ==
    [ parses |-> TRUE,
      data |-> FileBytes(8),
      dynsyms |-> [ len |-> 2, at |-> (0 :> ImportSym(<<>>)) @@ (1 :> ImportSym(Sym.malloc)) ],
      program_headers |-> << Phdr(PT_LOAD, 0, U64Zero, 8, <<0, 0, 0, \h1000>>) >>,
      dynrelas |->
          << Rela(R_AARCH64_RELATIVE, 64, 0, U64FromNat(1)),
             Rela(R_AARCH64_ABS64, 72, 2, U64Zero) >>,
      pltrelocs |-> << >> ]

\* bytes that Elf::parse rejects
ElfGarbage ==
    [ parses |-> FALSE,
      data |-> FileBytes(8),
      dynsyms |-> [ len |-> 0, at |-> <<>> ],
      program_headers |-> << >>,
      dynrelas |-> << >>,
      pltrelocs |-> << >> ]

ElfCatalogue ==
    (LIB_STORESERVICES :> ElfStoreServices) @@ (LIB_COREADI :> ElfCoreAdi)
    @@ (LIB_BIG :> ElfBig) @@ (LIB_BADRELOC :> ElfBadReloc)
    @@ (LIB_CLASH :> ElfClash)
    @@ (LIB_E :> ElfPlain) @@ (LIB_F :> ElfPlain) @@ (LIB_G :> ElfPlain)
    @@ (LIB_NONE :> ElfNone) @@ (LIB_SHARED :> ElfShared) @@ (LIB_STRADDLE :> ElfStraddle)
    @@ (LIB_BADFILE :> ElfBadFile) @@ (LIB_BADFIT :> ElfBadFit) @@ (LIB_SKIPPED :> ElfSkipped)
    @@ (LIB_HUGE :> ElfHuge) @@ (LIB_FAR :> ElfFar)
    @@ (LIB_BADSYM :> ElfBadSym) @@ (LIB_GARBAGE :> ElfGarbage)

---------------------------------------------------------------------------
(* State                                                                   *)

VARIABLES
    overflow_checks,    \* the build checks integer overflow (debug profile)
    panicked,           \* a Rust panic has ended the process
    allocator,          \* a stand-alone Allocator (allocator.rs)
    alloc_returns,      \* history: what successful allocations and opens returned
    uc,                 \* EmuCore.uc: RuntimeState, guest memory, registers
    fs,                 \* the host file system
    emu,                \* where the call in flight stands inside emu_start
    result,             \* history: the outcome of the last operation
    steps,              \* history: number of operations performed
    adi,                \* the Adi call in flight (adi.rs)
    prov,               \* the ProvisioningSession::provision call (provisioning.rs)
    export_state        \* STATE: the thread-local ExportState of every thread (exports.rs)

vars == <<overflow_checks, panicked, allocator, alloc_returns, uc, fs, emu, result, steps,
          adi, prov, export_state>>

NoResult == [op |-> "none"]

\* no EmuCore has been constructed, no host file system is in play
NoVm == [made |-> FALSE]
NoFs == [made |-> FALSE]

\* not inside emu_start
Idle == [phase |-> "idle"]

\* no method of Adi is waiting for its guest call
NoCall == [method |-> "none"]

\* there is no Adi value, provision has not been called
NoAdi == [made |-> FALSE, ctor |-> FALSE, init |-> <<>>, p |-> <<>>, call |-> NoCall]
NoSession == [pc |-> "none"]

\* the threads that call the exported operations
Threads == {1, 2}

\* no exported operation is in flight
NoExport == [name |-> "none"]

\* ExportState::default(): no Adi, no error message, empty buffers
ExportState_default ==
    [ adi |-> <<>>, last_error |-> <<>>, cpim |-> <<>>, session |-> <<0, 0, 0, 0>>,
      otp |-> <<>>, mid |-> <<>>, read_buf |-> <<>> ]

\* STATE before any thread has called an exported operation
NoExports == [of |-> [t \in Threads |-> ExportState_default], call |-> NoExport]

---------------------------------------------------------------------------
(* allocator.rs                                                            *)

\* Allocator::new
Allocator_new(base, size) == [base |-> base, size |-> size, offset |-> U64Zero]

\* an allocator that never reports OOM
Allocator_alloc_unbounded(self, request, checks) ==
    Bind(U64MaxOf(request, U64One), LAMBDA clamped :
    Bind(saturating_add(self.offset, align_up(clamped, PAGE_SIZE)), LAMBDA next :
        IF checks /\ (\/ align_up_overflows(clamped, PAGE_SIZE)
                      \/ AddOverflows(self.base, self.offset))
        THEN [status |-> "panic", address |-> U64Zero, self |-> self]
        ELSE [status |-> "ok", address |-> wrapping_add(self.base, self.offset),
              self |-> [self EXCEPT !.offset = next]]))

\* Allocator::alloc: the outcome, the address returned and the allocator
\* afterwards.  `length` and `address` are computed before the bound is
\* tested, so their overflow panics first when overflow is checked.
Allocator_alloc(self, request, checks) ==
    Bind(U64MaxOf(request, U64One), LAMBDA clamped :
    Bind(saturating_add(self.offset, align_up(clamped, PAGE_SIZE)), LAMBDA next :
        IF checks /\ (\/ align_up_overflows(clamped, PAGE_SIZE)
                      \/ AddOverflows(self.base, self.offset))
        THEN [status |-> "panic", address |-> U64Zero, self |-> self]
        ELSE IF U64Lt(self.size, next)
        THEN [status |-> "oom", address |-> U64Zero, self |-> self]
        ELSE [status |-> "ok", address |-> wrapping_add(self.base, self.offset),
              self |-> [self EXCEPT !.offset = next]]))

---------------------------------------------------------------------------
(* The stand-alone allocator: any base, any size, any requests             *)

MaxAllocCalls == 4

TestBases ==
    { U64Zero,
      <<0, 0, \h1000, 0>>,              \* 0x1000_0000 (allocator.rs test)
      <<0, 0, 0, 1>>,                   \* not page-aligned
      <<Limb - 1, Limb - 1, Limb - 1, \hF000>> }   \* 2^64 - 0x1000

TestSizes ==
    { U64Zero,
      <<0, 0, 0, \h2000>>,
      <<0, 0, 2, 0>>,                   \* 0x20_000 (allocator.rs test)
      U64Max }

TestRequests ==
    { U64Zero,
      U64One,
      <<0, 0, 0, \h1000>>,
      <<0, 0, 0, \h1500>>,
      <<0, 0, 0, \h2001>>,
      <<Limb - 1, Limb - 1, Limb - 1, \hF000>>,    \* 2^64 - 4096
      <<Limb - 1, Limb - 1, Limb - 1, \hF001>>,    \* 2^64 - 4095
      U64Max }

InitAlloc ==
    /\ overflow_checks \in BOOLEAN
    /\ panicked = FALSE
    /\ \E base \in TestBases, size \in TestSizes :
           allocator = Allocator_new(base, size)
    /\ alloc_returns = <<>>
    /\ uc = NoVm
    /\ fs = NoFs
    /\ emu = Idle
    /\ result = NoResult
    /\ steps = 0
    /\ adi = NoAdi
    /\ prov = NoSession
    /\ export_state = NoExports

\* one call of Allocator::alloc(request)
Alloc(request) ==
    LET r == Allocator_alloc(allocator, request, overflow_checks)
    IN  /\ ~panicked
        /\ steps < MaxAllocCalls
        /\ steps' = steps + 1
        /\ allocator' = r.self
        /\ panicked' = (r.status = "panic")
        /\ result' = [op |-> "alloc", request |-> request, pre |-> allocator,
                      status |-> r.status, address |-> r.address]
        /\ alloc_returns' =
               IF r.status # "ok" THEN alloc_returns
               ELSE LET e == [request |-> request, address |-> r.address]
                    IN  IF alloc_returns = <<>> THEN <<e>>
                        ELSE <<alloc_returns[Len(alloc_returns)], e>>
        /\ UNCHANGED <<adi, prov, overflow_checks, export_state, uc, fs, emu>>

NextAlloc == \E request \in TestRequests : Alloc(request)

SpecAlloc == InitAlloc /\ [][NextAlloc]_vars

---------------------------------------------------------------------------
(* Claims about the stand-alone allocator (SpecAlloc)                      *)

IsPageMultiple(a) == a[4] % PAGE_SIZE = 0

\* ceil(n / 4096) * 4096 over the integers does not fit 64 bits
PageCeilTooBig(n) ==
    /\ ~IsPageMultiple(n)
    /\ AddOverflows(ClearLowBits(n, PAGE_SIZE), U64FromNat(PAGE_SIZE))

\* ceil(n / 4096) * 4096 modulo 2^64
PageCeil(n) ==
    IF IsPageMultiple(n) THEN n
    ELSE wrapping_add(ClearLowBits(n, PAGE_SIZE), U64FromNat(PAGE_SIZE))

AllocReturned == result.op = "alloc" /\ result.status = "ok"

C6_OomExactlyWhenOverSize ==
    result.op = "alloc" =>
        LET pre == result.pre
            n == U64MaxOf(result.request, U64One)
            over == \/ PageCeilTooBig(n)
                    \/ AddOverflows(pre.offset, PageCeil(n))
                    \/ U64Lt(pre.size, wrapping_add(pre.offset, PageCeil(n)))
        IN  IF over
            THEN result.status = "oom" /\ allocator.offset = pre.offset
            ELSE /\ result.status = "ok"
                 /\ result.address = wrapping_add(pre.base, pre.offset)
                 /\ allocator.offset = wrapping_add(pre.offset, PageCeil(n))

---------------------------------------------------------------------------
(* The emulator instance                                                   *)
(* uc = [made, data, mapped, mem, hooks, regs]: data is the RuntimeState,  *)
(* hooks the address ranges that carry the import code hook, regs the      *)
(* registers the core reads and writes (x[0..28], sp, lr, pc).  An         *)
(* Option is a sequence of length 0 (None) or 1 (Some).                    *)

RET_AARCH64 == <<192, 3, 95, 214>>

\* a RuntimeState whose library allocator has room for eleven libraries
RuntimeState_new_with_eleven_reservations ==
    [ temp_allocator |-> Allocator_new(TEMP_ALLOC_BASE, TEMP_ALLOC_SIZE),
      library_allocator |-> Allocator_new(LIB_ALLOC_BASE, <<0, 0, \hB000, 0>>),
      malloc_allocator |-> Allocator_new(MALLOC_ADDRESS, MALLOC_SIZE),
      errno_address |-> <<>>,
      library_blobs |-> {},
      loaded_libraries |-> <<>>,
      file_handles |-> <<>>,
      library_root |-> <<>> ]

\* RuntimeState::new
RuntimeState_new ==
    [ temp_allocator |-> Allocator_new(TEMP_ALLOC_BASE, TEMP_ALLOC_SIZE),
      library_allocator |-> Allocator_new(LIB_ALLOC_BASE, LIB_ALLOC_SIZE),
      malloc_allocator |-> Allocator_new(MALLOC_ADDRESS, MALLOC_SIZE),
      errno_address |-> <<>>,
      library_blobs |-> {},
      loaded_libraries |-> <<>>,
      file_handles |-> <<>>,
      library_root |-> <<>> ]

\* the base of the import page of library i
ImportPage(i) == wrapping_add(IMPORT_ADDRESS, U64MulSmall(IMPORT_LIBRARY_STRIDE, i))

\* EmuCore::new_arm64
new_arm64 ==
    [ made |-> TRUE,
      data |-> RuntimeState_new,
      mapped |->
          { [start |-> RETURN_ADDRESS, len |-> U64FromNat(PAGE_SIZE)],
            [start |-> MALLOC_ADDRESS, len |-> MALLOC_SIZE],
            [start |-> STACK_ADDRESS, len |-> STACK_SIZE] }
          \cup { [start |-> ImportPage(i), len |-> IMPORT_SIZE] :
                    i \in 0..(IMPORT_LIBRARY_COUNT - 1) },
      mem |->
          [ k \in 1..IMPORT_LIBRARY_COUNT |->
              [start |-> ImportPage(k - 1), len |-> IMPORT_SIZE, at |-> 0,
               data |-> <<>>, pad |-> RET_AARCH64] ],
      hooks |->
          { [start |-> ImportPage(i), len |-> IMPORT_SIZE] :
               i \in 0..(IMPORT_LIBRARY_COUNT - 1) },
      regs |-> [x |-> [i \in 0..(ARG_REGS_LEN - 1) |-> U64Zero],
                sp |-> U64Zero, lr |-> U64Zero, pc |-> U64Zero] ]

\* The world a host function runs in: the emulator, the host file system,
\* what the host does to this call (host_ok: its file operations succeed;
\* now: the clock), the build, the pending error and the returned value.
World(u, f, host_ok, now, checks) ==
    [uc |-> u, fs |-> f, host_ok |-> host_ok, now |-> now, checks |-> checks,
     err |-> "none", value |-> U64Zero]

Fail(w, e) == [w EXCEPT !.err = e]

\* `let x = v?; F(x)`: the error of v, or F applied to v
Try(v, F(_)) == CHOOSE y \in {IF x.err # "none" THEN x ELSE F(x) : x \in {v}} : TRUE
Return(w, v) == [w EXCEPT !.value = v]

\* uc.mem_write
mem_write(w, address, buf) ==
    IF IsMapped(w.uc.mapped, address, buf.len)
    THEN [w EXCEPT !.uc.mem = mem_after_write(@, address, buf)]
    ELSE Fail(w, "Unicorn(WRITE_UNMAPPED)")

\* uc.mem_map
mem_map(w, address, len) ==
    Bind(mem_map_status(w.uc.mapped, address, len), LAMBDA st :
        IF st = "ok"
        THEN [w EXCEPT !.uc.mapped = @ \cup {[start |-> address, len |-> len]}]
        ELSE Fail(w, IF st = "MAP" THEN "Unicorn(MAP)" ELSE "Unicorn(ARG)"))

\* uc.reg_read / uc.reg_write of X0..X28
X(w, i) == w.uc.regs.x[i]
reg_write(w, i, v) == [w EXCEPT !.uc.regs.x[i] = v]

\* state.<which>.alloc(request)? on one of the three allocators
state_alloc(w, which, request) ==
    Bind(Allocator_alloc(w.uc.data[which], request, w.checks), LAMBDA r :
        IF r.status = "panic" THEN Fail(w, "panic")
        ELSE IF r.status = "oom" THEN Fail(w, "AllocatorOom")
        ELSE Return([w EXCEPT !.uc.data[which] = r.self], r.address))

\* value as usize: the low 32 bits on a 32-bit target
AsUsize(w, value) ==
    IF w.fs.usize_bits = 32 THEN <<0, 0, value[3], value[4]>> ELSE value

\* util::as_usize: usize::try_from(value) succeeds, or fails
as_usize(w, value) ==
    IF AsUsize(w, value) = value THEN w
    ELSE Fail(w, "IntegerOverflow")

\* alloc_temp_bytes that pads with zeros
alloc_temp_bytes_zero_padded(w, data, padding_byte) ==
    Bind(align_up(U64FromNat(IF Len(data) > 1 THEN Len(data) ELSE 1), PAGE_SIZE),
         LAMBDA length :
        Try(state_alloc(w, "temp_allocator", length), LAMBDA w1 :
        Try(mem_map(w1, w1.value, length), LAMBDA w2 :
        Try(mem_write(w2, w1.value, Filled(length, 0, data, 0)), LAMBDA w3 :
        Return(w3, w1.value)))))

\* emu::alloc_temp_bytes; data is a byte string shorter than 2^30
alloc_temp_bytes(w, data, padding_byte) ==
    Bind(align_up(U64FromNat(IF Len(data) > 1 THEN Len(data) ELSE 1), PAGE_SIZE),
         LAMBDA length :
        Try(state_alloc(w, "temp_allocator", length), LAMBDA w1 :
        Try(mem_map(w1, w1.value, length), LAMBDA w2 :
        Try(mem_write(w2, w1.value, Filled(length, 0, data, padding_byte)), LAMBDA w3 :
        Return(w3, w1.value)))))

\* emu::alloc_temp_bytes for a long byte string, data followed by `zeros`
\* zero bytes (below 2^30 bytes in all): the buffer is the padding with
\* the byte string laid over it
alloc_temp_long(w, data, zeros, padding_byte) ==
    Bind(align_up(U64FromNat(Len(data) + zeros), PAGE_SIZE), LAMBDA length :
        Try(state_alloc(w, "temp_allocator", length), LAMBDA w1 :
        Try(mem_map(w1, w1.value, length), LAMBDA w2 :
        Try(mem_write(w2, w1.value, Filled(length, 0, <<>>, padding_byte)), LAMBDA w3 :
        Try(mem_write(w3, w1.value, Filled(U64FromNat(Len(data) + zeros), 0, data, 0)),
            LAMBDA w4 : Return(w4, w1.value))))))

\* EmuCore::alloc_temporary for a length below 2^32: the data and the
\* padding are both 0xAA
alloc_temporary(w, length) ==
    Bind(align_up(U64MaxOf(length, U64One), PAGE_SIZE), LAMBDA page_len :
        Try(state_alloc(w, "temp_allocator", page_len), LAMBDA w1 :
        Try(as_usize(w1, page_len), LAMBDA w2 :
        Try(mem_map(w2, w1.value, page_len), LAMBDA w3 :
        Try(mem_write(w3, w1.value, Filled(page_len, 0, <<>>, 170)), LAMBDA w4 :
        Return(w4, w1.value))))))

\* an errno cell that is allocated anew on every use
ensure_errno_address_fresh(w) ==
    Try(alloc_temp_bytes(w, <<0, 0, 0, 0>>, 0), LAMBDA w1 :
    [w1 EXCEPT !.uc.data.errno_address = <<w1.value>>])

\* emu::ensure_errno_address
ensure_errno_address(w) ==
    IF w.uc.data.errno_address # <<>> THEN Return(w, w.uc.data.errno_address[1])
    ELSE Try(alloc_temp_bytes(w, <<0, 0, 0, 0>>, 0), LAMBDA w1 :
         [w1 EXCEPT !.uc.data.errno_address = <<w1.value>>])

\* emu::set_errno
set_errno(w, value) ==
    Try(ensure_errno_address(w), LAMBDA w1 :
    mem_write(w1, w1.value, Bytes(U32ToLeBytes(value))))

\* the first index i >= from (0-based, below max_len) with a zero byte at
\* address + i, or max_len if there is none
ZeroPosition(m, address, from, max_len) ==
    IF from >= max_len THEN max_len
    ELSE CHOOSE i \in from..max_len :
             /\ i = max_len \/ ByteAt(m, wrapping_add(address, U64FromNat(i))) = 0
             /\ \A k \in from..(i - 1) :
                    ByteAt(m, wrapping_add(address, U64FromNat(k))) # 0

\* emu::read_c_string; the string comes back in w.str
read_c_string(w, address, max_len) ==
    IF ~IsMapped(w.uc.mapped, address, U64FromNat(max_len))
    THEN [str |-> <<>>, err |-> "Unicorn(READ_UNMAPPED)"]
    ELSE Bind(ZeroPosition(w.uc.mem, address, 0, max_len), LAMBDA len :
         IF len = max_len
         THEN [str |-> <<>>, err |-> "UnterminatedCString"]
         ELSE [str |-> from_utf8_lossy(BytesAt(w.uc.mem, address, len)),
               err |-> "none"])

---------------------------------------------------------------------------
(* The loader (emu.rs)                                                     *)
(* A LoadedLibrary is [name, symbols, symbols_by_name]; symbols is         *)
(* [len, at, rest]: the entries `at` by index, and `rest`, the entry that  *)
(* every filler symbol yields.                                             *)

\* a loader that never finds a library among the loaded ones
LoadedIndex_never(st, library_name) == -1

\* the index of the library called library_name among the loaded ones, or -1
LoadedIndex(st, library_name) ==
    LET hits == {i \in 1..Len(st.loaded_libraries) :
                    st.loaded_libraries[i].name = library_name}
    IN  IF hits = {} THEN -1
        ELSE (CHOOSE i \in hits : \A j \in hits : i <= j) - 1

\* import slots one byte apart
ResolvedAddress_unscaled(sym, index, library_index, base) ==
    IF sym.undef
    THEN wrapping_add(ImportPage(library_index), U64FromNat(index))
    ELSE wrapping_add(base, sym.st_value)

\* the resolved address of dynamic symbol number index
ResolvedAddress(sym, index, library_index, base) ==
    IF sym.undef
    THEN wrapping_add(ImportPage(library_index), U64FromNat(index * 4))
    ELSE wrapping_add(base, sym.st_value)

SymbolEntries(dynsyms, library_index, base) ==
    [ len |-> dynsyms.len,
      at |-> [i \in DOMAIN dynsyms.at |->
                [name |-> dynsyms.at[i].st_name,
                 resolved |-> ResolvedAddress(dynsyms.at[i], i, library_index, base)]],
      rest |-> [name |-> FillerSym.st_name,
                resolved |-> ResolvedAddress(FillerSym, 0, library_index, base)] ]

\* symbols.get(index), for index < symbols.len
SymbolAt(symbols, index) ==
    IF index \in DOMAIN symbols.at THEN symbols.at[index] ELSE symbols.rest

\* symbols_by_name: the first occurrence of every non-empty name
SymbolsByName(symbols) ==
    LET named == {i \in DOMAIN symbols.at : symbols.at[i].name # <<>>}
        names == {symbols.at[i].name : i \in named}
        first(n) == CHOOSE i \in named :
                        /\ symbols.at[i].name = n
                        /\ \A j \in named : symbols.at[j].name = n => i <= j
    IN  [n \in names |-> symbols.at[first(n)].resolved]

\* the copy of the file bytes of segment ph into its mapped pages
FillSegment(w, elf_data, ph, map_start, map_len, start_offset) ==
    LET file_offset == AsUsize(w, ph.p_offset)
        file_len == AsUsize(w, ph.p_filesz)
        usize_max == IF w.fs.usize_bits = 32 THEN <<0, 0, \hFFFF, \hFFFF>> ELSE U64Max
    IN  IF \/ U64Lt(wrapping_sub(usize_max, file_offset), file_len)
           \/ U64Lt(U64FromNat(Len(elf_data)), wrapping_add(file_offset, file_len))
        THEN Fail(w, "InvalidElfRange")
        ELSE IF /\ U64ToNat(file_len) > 0
                /\ U64Lt(AsUsize(w, map_len), U64FromNat(start_offset + U64ToNat(file_len)))
        THEN Fail(w, "InvalidElfRange")
        ELSE mem_write(w, map_start,
                 Filled(AsUsize(w, map_len), start_offset,
                        SubSeq(elf_data, U64ToNat(file_offset) + 1,
                               U64ToNat(file_offset) + U64ToNat(file_len)), 0))

\* one pass of the program header loop of load_library_by_name
LoadSegment(w, elf_data, ph, base) ==
    Bind(wrapping_add(base, ph.p_vaddr), LAMBDA seg_addr :
    Bind(align_down(seg_addr, PAGE_SIZE), LAMBDA map_start :
    Bind(wrapping_add(seg_addr, ph.p_memsz), LAMBDA seg_end :
    Bind(saturating_sub(align_up(seg_end, PAGE_SIZE), map_start), LAMBDA map_len :
        IF w.checks /\ align_up_overflows(seg_end, PAGE_SIZE) THEN Fail(w, "panic")
        ELSE IF map_len = U64Zero THEN w
        ELSE IF w.checks /\ AddOverflows(seg_addr, saturating_sub(map_len, U64One))
        THEN Fail(w, "panic")
        ELSE IF ph.p_type # PT_LOAD \/ ph.p_memsz = U64Zero THEN w
        ELSE Try(as_usize(w, map_len), LAMBDA w0 :
             Bind(mem_map(w0, map_start, map_len), LAMBDA w1 :
             IF w1.err \notin {"none", "Unicorn(MAP)"} THEN w1
             ELSE FillSegment([w1 EXCEPT !.err = "none"], elf_data, ph,
                              map_start, map_len, seg_addr[4] % PAGE_SIZE)))))))

\* the program header loop from header number i on
RECURSIVE LoadSegments(_, _, _, _)
LoadSegments(w, elf, base, i) ==
    IF i > Len(elf.program_headers) THEN w
    ELSE Try(LoadSegment(w, elf.data, elf.program_headers[i], base),
             LAMBDA w1 : LoadSegments(w1, elf, base, i + 1))

\* the value apply_relocation writes, and whether computing it panics
RelocationWrite(w, address, value, panics) ==
    IF w.checks /\ panics THEN Fail(w, "panic")
    ELSE mem_write(w, address, Bytes(U64ToLeBytes(value)))

\* apply_relocation with the symbol index checked before the type, and an
\* entry of type 0 written like a RELATIVE one
apply_relocation_none_written(w, base, relocation, symbols) ==
    IF ~(relocation.r_sym < symbols.len) THEN Fail(w, "SymbolIndexOutOfRange")
    ELSE IF relocation.r_type \notin {0, R_AARCH64_ABS64, R_AARCH64_GLOB_DAT,
                                      R_AARCH64_JUMP_SLOT, R_AARCH64_RELATIVE}
    THEN Fail(w, "UnsupportedRelocation")
    ELSE RelocationWrite(w, wrapping_add(base, relocation.r_offset),
             IF relocation.r_type = R_AARCH64_JUMP_SLOT
             THEN SymbolAt(symbols, relocation.r_sym).resolved
             ELSE add_i64(IF relocation.r_type \in {0, R_AARCH64_RELATIVE} THEN base
                          ELSE SymbolAt(symbols, relocation.r_sym).resolved,
                          relocation.r_addend),
             /\ relocation.r_type # R_AARCH64_JUMP_SLOT
             /\ add_i64_overflows(relocation.r_addend))

\* emu::apply_relocation
apply_relocation(w, base, relocation, symbols) ==
    IF relocation.r_type = 0 THEN w
    ELSE IF ~(relocation.r_sym < symbols.len) THEN Fail(w, "SymbolIndexOutOfRange")
    ELSE IF relocation.r_type \notin {R_AARCH64_ABS64, R_AARCH64_GLOB_DAT,
                                      R_AARCH64_JUMP_SLOT, R_AARCH64_RELATIVE}
    THEN Fail(w, "UnsupportedRelocation")
    ELSE RelocationWrite(w, wrapping_add(base, relocation.r_offset),
             IF relocation.r_type = R_AARCH64_JUMP_SLOT
             THEN SymbolAt(symbols, relocation.r_sym).resolved
             ELSE add_i64(IF relocation.r_type = R_AARCH64_RELATIVE THEN base
                          ELSE SymbolAt(symbols, relocation.r_sym).resolved,
                          relocation.r_addend),
             /\ relocation.r_type # R_AARCH64_JUMP_SLOT
             /\ add_i64_overflows(relocation.r_addend))

\* a relocation loop from entry number i on
RECURSIVE ApplyRelocations(_, _, _, _, _)
ApplyRelocations(w, base, relocs, symbols, i) ==
    IF i > Len(relocs) THEN w
    ELSE Try(apply_relocation(w, base, relocs[i], symbols),
             LAMBDA w1 : ApplyRelocations(w1, base, relocs, symbols, i + 1))

\* load_library_by_name, had it appended the library before relocating it
load_library_by_name_appending_first(w, library_name) ==
    Bind(LoadedIndex(w.uc.data, library_name), LAMBDA index :
    Bind(Len(w.uc.data.loaded_libraries), LAMBDA library_index :
        IF index >= 0 THEN Return(w, U64FromNat(index))
        ELSE IF library_name \notin w.uc.data.library_blobs
        THEN Fail(w, "LibraryNotRegistered")
        ELSE Bind(ElfCatalogue[library_name], LAMBDA elf :
             IF ~elf.parses THEN Fail(w, "Elf")
             ELSE
             Try(state_alloc(w, "library_allocator", LIB_RESERVATION_SIZE), LAMBDA w1 :
             Bind(SymbolEntries(elf.dynsyms, library_index, w1.value), LAMBDA symbols :
             Try(LoadSegments(w1, elf, w1.value, 1), LAMBDA w2 :
             Bind([w2 EXCEPT !.uc.data.loaded_libraries =
                       Append(@, [name |-> library_name, symbols |-> symbols,
                                  symbols_by_name |-> SymbolsByName(symbols)])],
                  LAMBDA w3 :
             Try(ApplyRelocations(w3, w1.value, elf.dynrelas, symbols, 1), LAMBDA w4 :
             Try(ApplyRelocations(w4, w1.value, elf.pltrelocs, symbols, 1), LAMBDA w5 :
             Return(w5, U64FromNat(library_index)))))))))))

\* emu::load_library_by_name; the ordinal comes back in w.value
load_library_by_name(w, library_name) ==
    Bind(LoadedIndex(w.uc.data, library_name), LAMBDA index :
    Bind(Len(w.uc.data.loaded_libraries), LAMBDA library_index :
        IF index >= 0 THEN Return(w, U64FromNat(index))
        ELSE IF library_name \notin w.uc.data.library_blobs
        THEN Fail(w, "LibraryNotRegistered")
        ELSE Bind(ElfCatalogue[library_name], LAMBDA elf :
             IF ~elf.parses THEN Fail(w, "Elf")
             ELSE
             Try(state_alloc(w, "library_allocator", LIB_RESERVATION_SIZE), LAMBDA w1 :
             Bind(SymbolEntries(elf.dynsyms, library_index, w1.value), LAMBDA symbols :
             Try(LoadSegments(w1, elf, w1.value, 1), LAMBDA w2 :
             Try(ApplyRelocations(w2, w1.value, elf.dynrelas, symbols, 1), LAMBDA w3 :
             Try(ApplyRelocations(w3, w1.value, elf.pltrelocs, symbols, 1), LAMBDA w4 :
             Return([w4 EXCEPT !.uc.data.loaded_libraries =
                        Append(@, [name |-> library_name, symbols |-> symbols,
                                   symbols_by_name |-> SymbolsByName(symbols)])],
                    U64FromNat(library_index))))))))))

\* emu::resolve_symbol_from_loaded_library_by_name
resolve_symbol_from_loaded_library_by_name(w, library_index, symbol_name) ==
    LET libs == w.uc.data.loaded_libraries
    IN  IF ~(library_index < Len(libs)) THEN Fail(w, "LibraryNotLoaded")
        ELSE IF symbol_name \notin DOMAIN libs[library_index + 1].symbols_by_name
        THEN Fail(w, "SymbolNotFound")
        ELSE Return(w, libs[library_index + 1].symbols_by_name[symbol_name])

---------------------------------------------------------------------------
(* The host file system, as std::fs shows it to the shims                  *)
(* fs = [made, unix, dirs, files]: the directories, and the content of     *)
(* every regular file by path.  An open File is [path, pos, read, write].  *)
(* A host operation can also fail for reasons outside the model            *)
(* (permissions, I/O errors): it then runs with w.host_ok = FALSE.         *)

S_IFDIR_0755 == 16877
S_IFREG_0644 == 33188
DIR_SIZE == 4096

\* "."
PATH_DOT == <<46>>

\* the host: its family, the width of usize on the build target (64, or 32
\* on wasm32) and its file system
HostFs(unix) ==
    [ made |-> TRUE, unix |-> unix, usize_bits |-> 64,
      dirs |-> {PATH_DOT},
      files |-> (PATH_ETC_PASSWD :> <<114, 111, 111, 116>>) ]

Exists(f, path) == path \in f.dirs \/ path \in DOMAIN f.files

\* fs::symlink_metadata / File::metadata: [mode, size] of an existing path
Metadata(f, path) ==
    IF path \in f.dirs
    THEN [mode |-> S_IFDIR_0755, size |-> U64FromNat(DIR_SIZE)]
    ELSE [mode |-> S_IFREG_0644, size |-> U64FromNat(Len(f.files[path]))]

\* fs::create_dir_all of a path directly under "."
create_dir_all(w, path) ==
    IF w.host_ok /\ path \notin DOMAIN w.fs.files
    THEN [w EXCEPT !.fs.dirs = @ \cup {path}]
    ELSE Fail(w, "Io")

\* Path::parent of a relative path with at least one '/'
Parent(path) ==
    LET cut == CHOOSE i \in 1..Len(path) :
                   path[i] = SLASH /\ \A j \in (i + 1)..Len(path) : path[j] # SLASH
    IN  SubSeq(path, 1, cut - 1)

\* path.rsplit('/').next(): what follows the last '/'
LastComponent(path) ==
    LET cuts == {i \in 1..Len(path) : path[i] = SLASH}
    IN  IF cuts = {} THEN path
        ELSE SubSeq(path, (CHOOSE i \in cuts : \A j \in cuts : j <= i) + 1, Len(path))

Zeros(n) == [i \in 1..n |-> 0]

\* the first n bytes of data, zero-extended
Resized(data, n) == [i \in 1..n |-> IF i <= Len(data) THEN data[i] ELSE 0]

\* data with bytes written at position pos (from 0)
Overwritten(data, pos, bytes) ==
    LET n == IF pos + Len(bytes) > Len(data) THEN pos + Len(bytes) ELSE Len(data)
    IN  [i \in 1..n |-> IF i > pos /\ i <= pos + Len(bytes) THEN bytes[i - pos]
                        ELSE IF i <= Len(data) THEN data[i] ELSE 0]

\* file_handles.get_mut(fd_index) yields Some(file)
FdIsOpen(w, fd) ==
    /\ U64IsSmall(fd)
    /\ U64ToNat(fd) < Len(w.uc.data.file_handles)
    /\ w.uc.data.file_handles[U64ToNat(fd) + 1] # <<>>

FileOf(w, fd) == w.uc.data.file_handles[U64ToNat(fd) + 1][1]

---------------------------------------------------------------------------
(* The shims (stub.rs)                                                     *)

\* a failure report that leaves the errno cell alone
FailEnoent_without_errno(w) == reg_write(w, 0, U64Max)

\* set_errno(uc, ENOENT)?; X0 = u64::MAX: how a shim reports a failure
FailEnoent(w) == Try(set_errno(w, ENOENT), LAMBDA w1 : reg_write(w1, 0, U64Max))

stub_return_zero(w) == reg_write(w, 0, U64Zero)

stub_malloc(w) ==
    Try(state_alloc(w, "malloc_allocator", X(w, 0)), LAMBDA w1 :
    reg_write(w1, 0, w1.value))

stub_free(w) == reg_write(w, 0, U64Zero)

\* the length (X2 as usize) is below 2^30 whenever the source range is
\* mapped
stub_strncpy(w) ==
    LET dst == X(w, 0)
        src == X(w, 1)
        length == AsUsize(w, X(w, 2))
    IN  IF ~IsMapped(w.uc.mapped, src, length) THEN Fail(w, "Unicorn(READ_UNMAPPED)")
        ELSE Bind(ZeroPosition(w.uc.mem, src, 0, U64ToNat(length)), LAMBDA copy_len :
             Try(mem_write(w, dst, Filled(length, 0, BytesAt(w.uc.mem, src, copy_len), 0)),
                 LAMBDA w1 : reg_write(w1, 0, dst)))

stub_mkdir(w) ==
    Bind(read_c_string(w, X(w, 0), 4096), LAMBDA path :
    IF path.err # "none" THEN Fail(w, path.err)
    ELSE IF path.str # PATH_ANISETTE THEN FailEnoent(w)
    ELSE Bind(create_dir_all(w, path.str), LAMBDA w1 :
         IF w1.err = "none" THEN reg_write(w1, 0, U64Zero) ELSE FailEnoent(w)))

stub_umask(w) == reg_write(w, 0, U64FromNat(511))

stub_chmod(w) ==
    Bind(read_c_string(w, X(w, 0), 4096), LAMBDA path :
    IF path.err # "none" THEN Fail(w, path.err)
    ELSE reg_write(w, 0, U64Zero))

\* a stat structure with st_size one field early, at offset 40
build_python_stat_bytes_size_at_40(mode, size) ==
    Zeros(8) \o Zeros(8) \o U32ToLeBytes(mode) \o Zeros(4) \o <<164, 129, 0, 0>>
    \o Zeros(4) \o Zeros(8) \o U64ToLeBytes(size) \o Zeros(8) \o Zeros(4)
    \o Zeros(4) \o Zeros(8) \o Zeros(8) \o Zeros(8) \o <<0, 0, 1, 1, 0, 0, 0, 0>>
    \o Zeros(8) \o Zeros(8) \o Zeros(8) \o Zeros(4) \o Zeros(4)

\* stub::build_python_stat_bytes
build_python_stat_bytes(mode, size) ==
    Zeros(8) \o Zeros(8) \o U32ToLeBytes(mode) \o Zeros(4) \o <<164, 129, 0, 0>>
    \o Zeros(4) \o Zeros(8) \o Zeros(8) \o U64ToLeBytes(size) \o Zeros(4)
    \o Zeros(4) \o Zeros(8) \o Zeros(8) \o Zeros(8) \o <<0, 0, 1, 1, 0, 0, 0, 0>>
    \o Zeros(8) \o Zeros(8) \o Zeros(8) \o Zeros(4) \o Zeros(4)

write_python_stat(w, out_ptr, mode, size) ==
    mem_write(w, out_ptr, Bytes(build_python_stat_bytes(mode, size)))

\* the tail shared by stat_path_into_guest and stat_fd_into_guest:
\* metadata.mode() on a unix host, 0 elsewhere
StatIntoGuest(w, metadata, out_ptr) ==
    Try(write_python_stat(w, out_ptr,
            IF w.fs.unix THEN metadata.mode ELSE 0, metadata.size),
        LAMBDA w1 : reg_write(w1, 0, U64Zero))

stat_path_into_guest(w, path, out_ptr) ==
    IF ~(w.host_ok /\ Exists(w.fs, path)) THEN FailEnoent(w)
    ELSE StatIntoGuest(w, Metadata(w.fs, path), out_ptr)

stat_fd_into_guest(w, fd, out_ptr) ==
    IF ~FdIsOpen(w, fd) THEN Fail(w, "InvalidFileDescriptor")
    ELSE IF ~w.host_ok THEN FailEnoent(w)
    ELSE StatIntoGuest(w, Metadata(w.fs, FileOf(w, fd).path), out_ptr)

stub_lstat(w) ==
    Bind(read_c_string(w, X(w, 0), 4096), LAMBDA path :
    IF path.err # "none" THEN Fail(w, path.err)
    ELSE stat_path_into_guest(w, path.str, X(w, 1)))

stub_fstat(w) == stat_fd_into_guest(w, X(w, 0), X(w, 1))

\* options.open(&path) for the options stub_open builds; the descriptor
\* table grows by the new File
OpenFile(w, path, access_mode, create) ==
    LET readable == access_mode = 0 \/ access_mode = O_RDWR \/ create
        writable == access_mode = O_WRONLY \/ access_mode = O_RDWR \/ create
        truncate == access_mode = O_WRONLY
        file == [path |-> path, pos |-> 0, read |-> readable, write |-> writable]
        Opens(w1) == /\ w1.host_ok
                     /\ path \notin w1.fs.dirs
                     /\ Parent(path) \in w1.fs.dirs
                     /\ path \in DOMAIN w1.fs.files \/ create
        Content(w1) == IF path \in DOMAIN w1.fs.files /\ ~truncate
                       THEN w1.fs.files[path] ELSE <<>>
        Opened(w1) == [w1 EXCEPT !.fs.files = (path :> Content(w1)) @@ @,
                                 !.uc.data.file_handles = Append(@, <<file>>)]
    IN  Bind(IF create
             THEN [create_dir_all(w, Parent(path)) EXCEPT !.err = "none"]
             ELSE w,
             LAMBDA w1 :
                 IF Opens(w1)
                 THEN reg_write(Opened(w1), 0, U64FromNat(Len(w1.uc.data.file_handles)))
                 ELSE FailEnoent(w1))

\* stub_open with a flags test that asks for the O_NOFOLLOW bit only
stub_open_any_nofollow(w) ==
    LET flags == X(w, 1)
        access_mode == flags[4] % 4
        create == (flags[4] \div O_CREAT) % 2 = 1
    IN  Bind(read_c_string(w, X(w, 0), 4096), LAMBDA path :
        IF path.err # "none" THEN Fail(w, path.err)
        ELSE IF path.str = <<>> THEN Fail(w, "EmptyPath")
        ELSE IF path.str # PATH_ADI_PB THEN FailEnoent(w)
        ELSE IF (flags[4] \div O_NOFOLLOW) % 2 = 0 THEN FailEnoent(w)
        ELSE IF access_mode \notin {0, O_WRONLY, O_RDWR} THEN FailEnoent(w)
        ELSE OpenFile(w, path.str, access_mode, create))

\* stub::stub_open
stub_open(w) ==
    LET flags == X(w, 1)
        access_mode == flags[4] % 4
        create == (flags[4] \div O_CREAT) % 2 = 1
    IN  Bind(read_c_string(w, X(w, 0), 4096), LAMBDA path :
        IF path.err # "none" THEN Fail(w, path.err)
        ELSE IF path.str = <<>> THEN Fail(w, "EmptyPath")
        ELSE IF path.str # PATH_ADI_PB THEN FailEnoent(w)
        ELSE IF /\ flags # U64FromNat(O_NOFOLLOW)
                /\ flags # U64FromNat(O_NOFOLLOW + O_CREAT + O_WRONLY)
        THEN FailEnoent(w)
        ELSE IF access_mode \notin {0, O_WRONLY, O_RDWR} THEN FailEnoent(w)
        ELSE OpenFile(w, path.str, access_mode, create))

\* file.set_len(length)
stub_ftruncate(w) ==
    LET fd == X(w, 0)
        length == X(w, 1)
    IN  IF ~FdIsOpen(w, fd) THEN Fail(w, "InvalidFileDescriptor")
        ELSE IF w.host_ok /\ FileOf(w, fd).write /\ U64IsSmall(length)
        THEN reg_write([w EXCEPT !.fs.files[FileOf(w, fd).path] = Resized(@, U64ToNat(length))],
                       0, U64Zero)
        ELSE FailEnoent(w)

\* file.read(&mut buffer) fills the buffer as far as the file goes;
\* the count X2 is below 2^30
stub_read(w) ==
    LET fd == X(w, 0)
        buf_ptr == X(w, 1)
        count == U64ToNat(X(w, 2))
        file == FileOf(w, fd)
        content == w.fs.files[file.path]
        left == IF file.pos < Len(content) THEN Len(content) - file.pos ELSE 0
        read_size == IF count < left THEN count ELSE left
        w1 == [w EXCEPT !.uc.data.file_handles[U64ToNat(fd) + 1][1].pos = @ + read_size]
    IN  IF ~FdIsOpen(w, fd) THEN Fail(w, "InvalidFileDescriptor")
        ELSE IF ~(w.host_ok /\ file.read) THEN FailEnoent(w)
        ELSE Try(mem_write(w1, buf_ptr,
                     Bytes(SubSeq(content, file.pos + 1, file.pos + read_size))),
                 LAMBDA w2 : reg_write(w2, 0, U64FromNat(read_size)))

\* file.write_all(&bytes); the count X2 is below 2^30 when the range is mapped
stub_write(w) ==
    LET fd == X(w, 0)
        buf_ptr == X(w, 1)
        count == X(w, 2)
        file == FileOf(w, fd)
        bytes == BytesAt(w.uc.mem, buf_ptr, U64ToNat(count))
        w1 == [w EXCEPT !.fs.files[file.path] = Overwritten(@, file.pos, bytes),
                        !.uc.data.file_handles[U64ToNat(fd) + 1][1].pos = @ + Len(bytes)]
    IN  IF ~IsMapped(w.uc.mapped, buf_ptr, count) THEN Fail(w, "Unicorn(READ_UNMAPPED)")
        ELSE IF ~FdIsOpen(w, fd) THEN Fail(w, "InvalidFileDescriptor")
        ELSE IF ~(w.host_ok /\ file.write) THEN FailEnoent(w)
        ELSE reg_write(w1, 0, count)

\* a close that removes the slot from the table
stub_close_compacting(w) ==
    LET fd == X(w, 0)
    IN  IF ~(U64IsSmall(fd) /\ U64ToNat(fd) < Len(w.uc.data.file_handles))
        THEN Fail(w, "InvalidFileDescriptor")
        ELSE reg_write([w EXCEPT !.uc.data.file_handles =
                           [k \in 1..(Len(@) - 1) |->
                               IF k <= U64ToNat(fd) THEN @[k] ELSE @[k + 1]]],
                       0, U64Zero)

\* stub::stub_close
stub_close(w) ==
    LET fd == X(w, 0)
    IN  IF ~(U64IsSmall(fd) /\ U64ToNat(fd) < Len(w.uc.data.file_handles))
        THEN Fail(w, "InvalidFileDescriptor")
        ELSE reg_write([w EXCEPT !.uc.data.file_handles[U64ToNat(fd) + 1] = <<>>],
                       0, U64Zero)

stub_dlopen(w) ==
    Bind(read_c_string(w, X(w, 0), 4096), LAMBDA path :
    IF path.err # "none" THEN Fail(w, path.err)
    ELSE Try(load_library_by_name(w, LastComponent(path.str)), LAMBDA w1 :
         reg_write(w1, 0, wrapping_add(w1.value, U64One))))

stub_dlsym(w) ==
    LET handle == X(w, 0)
        ordinal == AsUsize(w, wrapping_sub(handle, U64One))
    IN  IF handle = U64Zero THEN Fail(w, "InvalidDlopenHandle")
        ELSE Bind(read_c_string(w, X(w, 1), 4096), LAMBDA symbol_name :
             IF symbol_name.err # "none" THEN Fail(w, symbol_name.err)
             ELSE IF ~U64IsSmall(ordinal) THEN Fail(w, "LibraryNotLoaded")
             ELSE Try(resolve_symbol_from_loaded_library_by_name(
                          w, U64ToNat(ordinal), symbol_name.str),
                      LAMBDA w1 : reg_write(w1, 0, w1.value)))

stub_dlclose(w) == reg_write(w, 0, U64Zero)

\* w.now = [sec, usec] is SystemTime::now() since the epoch
stub_gettimeofday(w) ==
    LET time_ptr == X(w, 0)
        tz_ptr == X(w, 1)
        timeval == U64ToLeBytes(w.now.sec) \o U64ToLeBytes(w.now.usec)
    IN  IF tz_ptr # U64Zero THEN Fail(w, "UnhandledImport")
        ELSE Try(mem_write(w, time_ptr, Bytes(timeval)), LAMBDA w1 :
             reg_write(w1, 0, U64Zero))

stub_errno_location(w) ==
    Try(ensure_errno_address(w), LAMBDA w1 : reg_write(w1, 0, w1.value))

\* "no s/n number"
NO_SERIAL == <<110, 111, 32, 115, 47, 110, 32, 110, 117, 109, 98, 101, 114>>

stub_system_property_get(w) ==
    Bind(read_c_string(w, X(w, 0), 4096), LAMBDA name :
    IF name.err # "none" THEN Fail(w, name.err)
    ELSE Try(mem_write(w, X(w, 1), Bytes(NO_SERIAL)), LAMBDA w1 :
         reg_write(w1, 0, U64FromNat(Len(NO_SERIAL)))))

stub_arc4random(w) == reg_write(w, 0, <<0, 0, \hDEAD, \hBEEF>>)

\* stub::handle_stub_by_name
handle_stub_by_name(w, symbol_name) ==
    CASE symbol_name = Sym.malloc -> stub_malloc(w)
      [] symbol_name = Sym.free -> stub_free(w)
      [] symbol_name = Sym.strncpy -> stub_strncpy(w)
      [] symbol_name = Sym.mkdir -> stub_mkdir(w)
      [] symbol_name = Sym.umask -> stub_umask(w)
      [] symbol_name = Sym.chmod -> stub_chmod(w)
      [] symbol_name = Sym.lstat -> stub_lstat(w)
      [] symbol_name = Sym.fstat -> stub_fstat(w)
      [] symbol_name = Sym.open -> stub_open(w)
      [] symbol_name = Sym.ftruncate -> stub_ftruncate(w)
      [] symbol_name = Sym.read -> stub_read(w)
      [] symbol_name = Sym.write -> stub_write(w)
      [] symbol_name = Sym.close -> stub_close(w)
      [] symbol_name = Sym.dlopen -> stub_dlopen(w)
      [] symbol_name = Sym.dlsym -> stub_dlsym(w)
      [] symbol_name = Sym.dlclose -> stub_dlclose(w)
      [] symbol_name \in { Sym.pthread_once, Sym.pthread_create, Sym.pthread_mutex_lock,
                           Sym.pthread_rwlock_unlock, Sym.pthread_rwlock_destroy,
                           Sym.pthread_rwlock_wrlock, Sym.pthread_rwlock_init,
                           Sym.pthread_mutex_unlock, Sym.pthread_rwlock_rdlock }
            -> stub_return_zero(w)
      [] symbol_name = Sym.gettimeofday -> stub_gettimeofday(w)
      [] symbol_name = Sym.errno -> stub_errno_location(w)
      [] symbol_name = Sym.system_property_get -> stub_system_property_get(w)
      [] symbol_name = Sym.arc4random -> stub_arc4random(w)
      [] OTHER -> Fail(w, "UnhandledImport")

\* the import slot an address of the import bank stands for
\* (address >= IMPORT_ADDRESS): offset / STRIDE and (offset % STRIDE) / 4
SlotOf(address) ==
    LET offset == wrapping_sub(address, IMPORT_ADDRESS)
    IN  [ library_index |-> IF offset[1] = 0 /\ offset[2] = 0
                            THEN offset[3] \div 256 ELSE 2^30,
          symbol_index |-> ((offset[3] % 256) * Limb + offset[4]) \div 4 ]

\* stub::dispatch_import_stub
dispatch_import_stub(w, address) ==
    LET slot == SlotOf(address)
        libs == w.uc.data.loaded_libraries
        library == libs[slot.library_index + 1]
    IN  IF U64Lt(address, IMPORT_ADDRESS) THEN Fail(w, "InvalidImportAddress")
        ELSE IF ~(slot.library_index < Len(libs)) THEN Fail(w, "LibraryNotLoaded")
        ELSE IF ~(slot.symbol_index < library.symbols.len)
        THEN Fail(w, "SymbolIndexOutOfRange")
        ELSE handle_stub_by_name(w, SymbolAt(library.symbols, slot.symbol_index).name)

---------------------------------------------------------------------------
(* Actions: the host API of EmuCore, and the steps of the emulator while   *)
(* a call is in flight.  The guest program is not modelled: wherever it    *)
(* runs it may call any address with any arguments, return or crash.       *)

\* SystemTime::now() readings
Clocks ==
    { [sec |-> U64Zero, usec |-> U64Zero],
      [sec |-> <<0, 0, \h6543, \h2100>>, usec |-> U64FromNat(999999)] }

\* a host call can be made: there is an emulator and nothing runs in it
Ready == uc.made /\ ~panicked /\ emu.phase = "idle"

\* the world of a host call that does not go through a shim
HostWorld == World(uc, fs, TRUE, CHOOSE c \in Clocks : TRUE, overflow_checks)

Commit(w) ==
    /\ uc' = w.uc
    /\ fs' = w.fs
    /\ panicked' = (w.err = "panic")

\* EmuCore::new_arm64 on a host of the given family
NewVm(unix) ==
    /\ ~uc.made
    /\ uc' = new_arm64
    /\ fs' = HostFs(unix)
    /\ result' = [op |-> "new_arm64"]
    /\ UNCHANGED <<adi, prov, overflow_checks, export_state, panicked, allocator, alloc_returns, emu, steps>>

\* EmuCore::new_arm64 in a build for wasm32 (emscripten, a unix family)
NewVmWasm32 ==
    /\ ~uc.made
    /\ uc' = new_arm64
    /\ fs' = [HostFs(TRUE) EXCEPT !.usize_bits = 32]
    /\ result' = [op |-> "new_arm64"]
    /\ UNCHANGED <<adi, prov, overflow_checks, export_state, panicked, allocator, alloc_returns, emu, steps>>

\* EmuCore::register_library_blob(name, the bytes of ElfCatalogue[name])
RegisterLibraryBlob(name) ==
    /\ Ready
    /\ name \notin uc.data.library_blobs
    /\ uc' = [uc EXCEPT !.data.library_blobs = @ \cup {name}]
    /\ result' = [op |-> "register_library_blob", name |-> name]
    /\ UNCHANGED <<adi, prov, overflow_checks, export_state, panicked, allocator, alloc_returns, fs, emu, steps>>

\* EmuCore::load_library
LoadLibrary(library_name) ==
    /\ Ready
    /\ \E w \in {load_library_by_name(HostWorld, library_name)} :
           /\ Commit(w)
           /\ result' = [op |-> "load_library", name |-> library_name, err |-> w.err,
                         value |-> w.value, pre |-> uc]
    /\ UNCHANGED <<adi, prov, overflow_checks, export_state, allocator, alloc_returns, emu, steps>>

\* EmuCore::alloc_data
AllocData(data) ==
    /\ Ready
    /\ \E w \in {alloc_temp_bytes(HostWorld, data, 204)} :
           /\ Commit(w)
           /\ result' = [op |-> "alloc_data", data |-> data, err |-> w.err,
                         value |-> w.value, pre |-> uc]
    /\ UNCHANGED <<adi, prov, overflow_checks, export_state, allocator, alloc_returns, emu, steps>>

\* EmuCore::alloc_temporary
AllocTemporary(length) ==
    /\ Ready
    /\ \E w \in {alloc_temporary(HostWorld, length)} :
           /\ Commit(w)
           /\ result' = [op |-> "alloc_temporary", length |-> length, err |-> w.err,
                         value |-> w.value, pre |-> uc]
    /\ UNCHANGED <<adi, prov, overflow_checks, export_state, allocator, alloc_returns, emu, steps>>

\* an arity test that lets one argument too many through
TooManyArguments_off_by_one(args) == Len(args) > ARG_REGS_LEN + 1

\* args.len() > ARG_REGS.len()
TooManyArguments(args) == Len(args) > ARG_REGS_LEN

\* a register setup that leaves SP where the call before left it
SetCallRegisters_keeps_sp(u, address, args) ==
    [u EXCEPT !.regs =
        [ x |-> [i \in 0..(ARG_REGS_LEN - 1) |->
                    IF i < Len(args) THEN args[i + 1] ELSE u.regs.x[i]],
          sp |-> IF u.regs.sp = U64Zero THEN wrapping_add(STACK_ADDRESS, STACK_SIZE)
                 ELSE u.regs.sp,
          lr |-> RETURN_ADDRESS,
          pc |-> address ]]

\* the registers invoke_cdecl writes before emu_start: X0.. from args, SP,
\* LR, and the target in PC
SetCallRegisters(u, address, args) ==
    [u EXCEPT !.regs =
        [ x |-> [i \in 0..(ARG_REGS_LEN - 1) |->
                    IF i < Len(args) THEN args[i + 1] ELSE u.regs.x[i]],
          sp |-> wrapping_add(STACK_ADDRESS, STACK_SIZE),
          lr |-> RETURN_ADDRESS,
          pc |-> address ]]

\* EmuCore::invoke_cdecl up to the point where emu_start takes over.
\* `steps` counts the calls where a specification bounds them.
InvokeCdecl(address, args) ==
    /\ Ready
    /\ IF TooManyArguments(args)
       THEN /\ result' = [op |-> "invoke_cdecl", address |-> address, nargs |-> Len(args),
                          err |-> "TooManyArguments", value |-> U64Zero,
                          hook_err |-> "none", pre |-> uc]
            /\ UNCHANGED <<uc, emu>>
       ELSE /\ uc' = SetCallRegisters(uc, address, args)
            /\ emu' = [phase |-> "running", address |-> address, nargs |-> Len(args),
                       hook_err |-> "none", pre |-> uc]
            /\ result' = [op |-> "emu_start", address |-> address, nargs |-> Len(args),
                          args |-> args]
    /\ UNCHANGED <<adi, prov, overflow_checks, export_state, panicked, allocator, alloc_returns, fs>>

Running == uc.made /\ ~panicked /\ emu.phase = "running"

\* the instruction at pc can be fetched
Fetchable(u) == IsMapped(u.mapped, u.regs.pc, U64FromNat(4))

\* pc lies in a range that carries the import code hook
Hooked(u) == \E h \in u.hooks : InRegion(h, u.regs.pc)

\* the emulator runs guest code of the program itself
InGuestCode(u) == u.regs.pc # RETURN_ADDRESS /\ Fetchable(u) /\ ~Hooked(u)

\* how invoke_cdecl ends once emu_start has returned
InvokeResult(err) ==
    [op |-> "invoke_cdecl", address |-> emu.address, nargs |-> emu.nargs,
     err |-> err, value |-> IF err = "none" THEN uc.regs.x[0] ELSE U64Zero,
     hook_err |-> emu.hook_err, pre |-> emu.pre]

\* The code hook of new_arm64 fires at an import slot: dispatch_import_stub.
\* If it fails the hook asks the emulator to stop, else the slot's `ret`
\* runs.  A slot whose bytes the guest has replaced is left to the guest.
\* The history in alloc_returns is left to the specification.
EmuImportHook(host_ok, now) ==
    /\ Running
    /\ uc.regs.pc # RETURN_ADDRESS
    /\ Fetchable(uc)
    /\ Hooked(uc)
    /\ \E w \in {dispatch_import_stub(World(uc, fs, host_ok, now, overflow_checks),
                                       uc.regs.pc)} :
       LET pc == uc.regs.pc
           is_ret == BytesAt(w.uc.mem, pc, 4) = RET_AARCH64
       IN  /\ fs' = w.fs
           /\ panicked' = (w.err = "panic")
           /\ uc' = IF w.err = "none" /\ is_ret
                    THEN [w.uc EXCEPT !.regs.pc = w.uc.regs.lr]
                    ELSE w.uc
           /\ emu' = IF w.err = "none"
                     THEN [emu EXCEPT !.phase = IF is_ret THEN "running" ELSE "crashed"]
                     ELSE [emu EXCEPT !.phase = "stopped", !.hook_err = w.err]
           /\ result' = [op |-> "import", address |-> pc, err |-> w.err,
                         pre |-> uc, pre_fs |-> fs]
    /\ UNCHANGED <<adi, prov, overflow_checks, export_state, allocator, steps>>

\* emu_start returns Ok: pc has reached RETURN_ADDRESS, or a hook has
\* called emu_stop.  invoke_cdecl returns Ok(X0).
EmuReturn ==
    /\ uc.made /\ ~panicked
    /\ \/ emu.phase = "running" /\ uc.regs.pc = RETURN_ADDRESS
       \/ emu.phase = "stopped"
    /\ emu' = Idle
    /\ result' = InvokeResult("none")
    /\ UNCHANGED <<adi, prov, overflow_checks, export_state, panicked, allocator, alloc_returns, uc, fs, steps>>

\* the fetch at pc hits unmapped memory: the memory hook declines, emu_start
\* and with it invoke_cdecl return the emulator's error
EmuFetchUnmapped ==
    /\ Running
    /\ uc.regs.pc # RETURN_ADDRESS
    /\ ~Fetchable(uc)
    /\ emu' = Idle
    /\ result' = InvokeResult("Unicorn(FETCH_UNMAPPED)")
    /\ UNCHANGED <<adi, prov, overflow_checks, export_state, panicked, allocator, alloc_returns, uc, fs, steps>>

\* guest code calls `target` with X0..X2 set, after storing the string
\* text (NUL-terminated) at the bottom of the stack region; `steps` counts
\* the calls where a specification bounds them
GuestCall(target, x0, x1, x2, text) ==
    /\ Running
    /\ InGuestCode(uc)
    /\ uc' = [uc EXCEPT !.mem = mem_after_write(@, STACK_ADDRESS, Bytes(text \o <<0>>)),
                        !.regs.x[0] = x0, !.regs.x[1] = x1, !.regs.x[2] = x2,
                        !.regs.lr = uc.regs.pc,
                        !.regs.pc = target]
    /\ result' = [op |-> "guest_call", target |-> target]
    /\ UNCHANGED <<adi, prov, overflow_checks, export_state, panicked, allocator, alloc_returns, fs, emu>>

\* guest code returns value to the address invoke_cdecl put in LR
GuestReturn(value) ==
    /\ Running
    /\ InGuestCode(uc)
    /\ uc' = [uc EXCEPT !.regs.x[0] = value, !.regs.pc = RETURN_ADDRESS]
    /\ result' = [op |-> "guest_return", value |-> value]
    /\ UNCHANGED <<adi, prov, overflow_checks, export_state, panicked, allocator, alloc_returns, fs, emu, steps>>

\* guest code moves SP, loads LR and computes a value into X28
GuestComputes(sp, lr, x28) ==
    /\ Running
    /\ InGuestCode(uc)
    /\ uc' = [uc EXCEPT !.regs.sp = sp, !.regs.lr = lr, !.regs.x[28] = x28]
    /\ result' = [op |-> "guest_computes"]
    /\ UNCHANGED <<adi, prov, overflow_checks, export_state, panicked, allocator, alloc_returns, fs, emu,
                   steps>>

\* guest code faults (an invalid instruction, an access to unmapped
\* memory): emu_start and with it invoke_cdecl return the emulator's error
GuestFault ==
    /\ uc.made /\ ~panicked
    /\ \/ emu.phase = "running" /\ InGuestCode(uc)
       \/ emu.phase = "crashed"
    /\ emu' = Idle
    /\ result' = InvokeResult("Unicorn(EXCEPTION)")
    /\ UNCHANGED <<adi, prov, overflow_checks, export_state, panicked, allocator, alloc_returns, uc, fs, steps>>

\* the start of every specification of the emulator
InitVm ==
    /\ overflow_checks \in BOOLEAN
    /\ panicked = FALSE
    /\ allocator = Allocator_new(U64Zero, U64Zero)
    /\ alloc_returns = <<>>
    /\ uc = NoVm
    /\ fs = NoFs
    /\ emu = Idle
    /\ result = NoResult
    /\ steps = 0
    /\ adi = NoAdi
    /\ prov = NoSession
    /\ export_state = NoExports

---------------------------------------------------------------------------
(* SpecLoad: a host that registers libraries in a fixed order, stores the  *)
(* path strings it needs before the first load, loads libraries in any     *)
(* order and calls dlopen through the import slot of a loaded library      *)

MaxFailedLoads == 2
MaxImages == 2
MaxDataAllocs == 1

\* the libraries, in the order the host registers them
LoadOrder == <<LIB_STORESERVICES, LIB_CLASH, LIB_BADRELOC>>

LoadNames == {LoadOrder[i] : i \in 1..Len(LoadOrder)}

\* "/lib/libclash.so", NUL-terminated
DLOPEN_PATH == <<47, 108, 105, 98, 47>> \o LIB_CLASH \o <<0>>

\* reservations of the library allocator that no loaded library owns
FailedLoads(u) ==
    IF ~u.made THEN 0
    ELSE (u.data.library_allocator.offset[3] \div LIB_RESERVATION_SIZE[3])
         - Len(u.data.loaded_libraries)

\* pages handed out by the temp allocator
TempPages(u) ==
    IF ~u.made THEN 0 ELSE U64ToNat(u.data.temp_allocator.offset) \div PAGE_SIZE

\* the addresses alloc_data has returned so far
TempPointers(u) ==
    {wrapping_add(TEMP_ALLOC_BASE, U64FromNat(k * PAGE_SIZE)) : k \in 0..(TempPages(u) - 1)}

\* the import slots of the loaded libraries for the symbol called name
ImportSlots(u, name) ==
    LET libs == IF u.made THEN u.data.loaded_libraries ELSE <<>>
    IN  { libs[k].symbols_by_name[name] :
            k \in {j \in 1..Len(libs) : name \in DOMAIN libs[j].symbols_by_name} }

NextLoad ==
    \/ NewVm(TRUE)
    \/ \E i \in 1..Len(LoadOrder) :
           /\ uc.made
           /\ \A j \in 1..(i - 1) : LoadOrder[j] \in uc.data.library_blobs
           /\ RegisterLibraryBlob(LoadOrder[i])
    \/ \E name \in LoadNames : FailedLoads(uc) < MaxFailedLoads /\ LoadLibrary(name)
    \/ /\ TempPages(uc) < MaxDataAllocs
       /\ uc.made
       /\ uc.data.loaded_libraries = <<>>
       /\ AllocData(DLOPEN_PATH)
    \/ \E target \in ImportSlots(uc, Sym.dlopen), ptr \in TempPointers(uc) :
           InvokeCdecl(target, <<ptr>>) /\ UNCHANGED steps
    \/ \E now \in Clocks : EmuImportHook(TRUE, now) /\ UNCHANGED alloc_returns
    \/ EmuReturn

SpecLoad == InitVm /\ [][NextLoad]_vars

---------------------------------------------------------------------------
(* Claims about the loader (SpecLoad)                                      *)

\* load_library has just returned Ok
LoadReturned == result.op = "load_library" /\ result.err = "none"

\* the dlopen shim has just returned Ok
DlopenReturned ==
    /\ result.op = "import"
    /\ result.err = "none"
    /\ result.address \in ImportSlots(result.pre, Sym.dlopen)

\* the name the last load_library or dlopen call asked for
RequestedName ==
    IF result.op = "load_library" THEN result.name
    ELSE LastComponent(
             read_c_string(World(result.pre, fs, TRUE, CHOOSE c \in Clocks : TRUE, FALSE),
                           result.pre.regs.x[0], 4096).str)

\* the ordinal the last call handed back: the value of load_library, the
\* handle minus one of dlopen
ReturnedOrdinal ==
    IF result.op = "load_library" THEN result.value
    ELSE wrapping_sub(uc.regs.x[0], U64One)

\* C7: when load_library or dlopen returns Ok for a name that was already
\* loaded at position i, it returns ordinal i (dlopen: handle i + 1) and
\* leaves the library list, the library allocator and guest memory as they
\* were; when the name was not loaded, it returns the old length of the
\* list and the list is longer by exactly one, the new library last.
C7_ReloadReturnsSameOrdinal ==
    (LoadReturned \/ DlopenReturned) =>
        LET before == result.pre.data.loaded_libraries
            after == uc.data.loaded_libraries
            known == {i \in 1..Len(before) : before[i].name = RequestedName}
        IN  IF known # {}
            THEN /\ \A i \in known : ReturnedOrdinal = U64FromNat(i - 1)
                 /\ after = before
                 /\ uc.data.library_allocator = result.pre.data.library_allocator
                 /\ uc.mem = result.pre.mem
                 /\ uc.mapped = result.pre.mapped
            ELSE /\ ReturnedOrdinal = U64FromNat(Len(before))
                 /\ Len(after) = Len(before) + 1
                 /\ SubSeq(after, 1, Len(before)) = before
                 /\ after[Len(after)].name = RequestedName

\* dlopen has returned for a library that load_library had loaded as the
\* second one before
C7_Witness ==
    /\ DlopenReturned
    /\ Len(result.pre.data.loaded_libraries) >= 2
    /\ result.pre.data.loaded_libraries[2].name = RequestedName
    /\ uc.regs.x[0] = U64FromNat(2)

\* the relocation entries of an image in the order the loader applies them
AllRelocations(elf) == elf.dynrelas \o elf.pltrelocs

SupportedRelocations ==
    {R_AARCH64_ABS64, R_AARCH64_GLOB_DAT, R_AARCH64_JUMP_SLOT, R_AARCH64_RELATIVE}

\* load_library has just loaded a library that was not loaded before
FreshLoad ==
    /\ LoadReturned
    /\ \A i \in 1..Len(result.pre.data.loaded_libraries) :
           result.pre.data.loaded_libraries[i].name # result.name

\* the base B the library allocator gave that library
FreshBase ==
    wrapping_add(result.pre.data.library_allocator.base,
                 result.pre.data.library_allocator.offset)

\* the value the relocation r must leave at B + O: resolved(S) + A,
\* resolved(S) or B + A, modulo 2^64
RelocationValue(r) ==
    LET symbols == uc.data.loaded_libraries[Len(uc.data.loaded_libraries)].symbols
        resolved == SymbolAt(symbols, r.r_sym).resolved
    IN  IF r.r_type \in {R_AARCH64_ABS64, R_AARCH64_GLOB_DAT}
        THEN wrapping_add(resolved, r.r_addend)
        ELSE IF r.r_type = R_AARCH64_JUMP_SLOT THEN resolved
        ELSE wrapping_add(FreshBase, r.r_addend)

\* the 8 bytes at B + O, read as a little-endian u64
RelocatedWord(r) ==
    U64FromLeBytes(BytesAt(uc.mem, wrapping_add(FreshBase, r.r_offset), 8))

\* C9 as stated: after a successful load, every relocation entry of a
\* supported type has its value in the 8 bytes at B + O.
C9_EveryRelocationHoldsItsValue ==
    FreshLoad =>
        LET rs == AllRelocations(ElfCatalogue[result.name])
        IN  \A i \in 1..Len(rs) :
                rs[i].r_type \in SupportedRelocations =>
                    RelocatedWord(rs[i]) = RelocationValue(rs[i])

\* a later entry of the same image writes some of the 8 bytes of entry i
Clobbered(rs, i) ==
    \E j \in (i + 1)..Len(rs) :
        /\ rs[j].r_type # 0
        /\ RangesOverlap(rs[j].r_offset, U64FromNat(8), rs[i].r_offset, U64FromNat(8))

\* C9, amended: after a successful load, every relocation entry of a
\* supported type whose 8 target bytes no later entry of the image writes
\* has its value in the 8 bytes at B + O: resolved(S) + A for ABS64 and
\* GLOB_DAT, resolved(S) for JUMP_SLOT, B + A for RELATIVE, modulo 2^64.
C9_UnclobberedRelocationsHoldTheirValue ==
    FreshLoad =>
        LET rs == AllRelocations(ElfCatalogue[result.name])
        IN  \A i \in 1..Len(rs) :
                (rs[i].r_type \in SupportedRelocations /\ ~Clobbered(rs, i)) =>
                    RelocatedWord(rs[i]) = RelocationValue(rs[i])

\* libstoreservicescore.so, which has entries of all four types, one of
\* them with a negative addend, has been loaded as the second library
C9_Witness ==
    /\ FreshLoad
    /\ result.name = LIB_STORESERVICES
    /\ result.value = U64One
    /\ \A t \in SupportedRelocations :
           \E i \in 1..Len(AllRelocations(ElfStoreServices)) :
               AllRelocations(ElfStoreServices)[i].r_type = t
    /\ \E i \in 1..Len(AllRelocations(ElfStoreServices)) :
           I64IsNegative(AllRelocations(ElfStoreServices)[i].r_addend)

---------------------------------------------------------------------------
(* SpecManyLibs: a host that registers six libraries, in this order, and   *)
(* then loads them in any order, each at most once                         *)

ManyLibs == <<LIB_COREADI, LIB_BIG, LIB_CLASH, LIB_E, LIB_F, LIB_G>>

NextManyLibs ==
    \/ NewVm(TRUE)
    \/ \E i \in 1..Len(ManyLibs) :
           /\ uc.made
           /\ \A j \in 1..(i - 1) : ManyLibs[j] \in uc.data.library_blobs
           /\ RegisterLibraryBlob(ManyLibs[i])
    \/ \E i \in 1..Len(ManyLibs) :
           /\ uc.made
           /\ \A j \in 1..Len(ManyLibs) : ManyLibs[j] \in uc.data.library_blobs
           /\ \A k \in 1..Len(uc.data.loaded_libraries) :
                  uc.data.loaded_libraries[k].name # ManyLibs[i]
           /\ LoadLibrary(ManyLibs[i])

SpecManyLibs == InitVm /\ [][NextManyLibs]_vars

\* C10: no reservation the library allocator hands to a library overlaps
\* the malloc arena (the fixed regions being pairwise disjoint).
C10_ReservationsAvoidMallocArena ==
    FreshLoad =>
        ~RangesOverlap(FreshBase, LIB_RESERVATION_SIZE, MALLOC_ADDRESS, MALLOC_SIZE)

---------------------------------------------------------------------------
(* SpecCall: a host that loads libstoreservicescore.so and libbig.so and   *)
(* calls the entry point of the first.  The guest code, once entered,      *)
(* makes one call (to an import slot, with a path string or other          *)
(* arguments of its choice), then returns or faults.                       *)

MaxInvokes == 1

CallLibs == <<LIB_STORESERVICES, LIB_BIG>>

\* the numbers of arguments the host passes
ArgCounts == {ARG_REGS_LEN, ARG_REGS_LEN + 1}

\* the path strings the guest passes
GuestPaths == {PATH_ADI_PB, PATH_ANISETTE, PATH_ETC_PASSWD, <<>>}

\* O_NOFOLLOW | O_CREAT | O_WRONLY
OPEN_FLAGS == U64FromNat(O_NOFOLLOW + O_CREAT + O_WRONLY)

GuestCase(name, x0, x1, text) ==
    [name |-> name, x0 |-> x0, x1 |-> x1, x2 |-> U64FromNat(384), text |-> text]

\* what the guest calls: the path shims on every path (the path lies at
\* the bottom of the stack, the stat buffer at the bottom of the malloc
\* arena), and calls that make a shim fail
GuestCases ==
    { GuestCase(Sym.open, STACK_ADDRESS, OPEN_FLAGS, p) : p \in GuestPaths }
    \cup { GuestCase(n, STACK_ADDRESS, MALLOC_ADDRESS, p) :
              n \in {Sym.mkdir, Sym.lstat, Sym.chmod},
              p \in {PATH_ANISETTE, PATH_ETC_PASSWD} }
    \cup { GuestCase(NAME_PRINTF, U64Zero, U64Zero, <<>>),
           GuestCase(Sym.close, U64FromNat(7), U64Zero, <<>>),
           GuestCase(Sym.malloc, <<0, 1, 0, 0>>, U64Zero, <<>>),
           GuestCase(Sym.gettimeofday, MALLOC_ADDRESS, U64One, <<>>),
           GuestCase(Sym.dlsym, U64Zero, STACK_ADDRESS, NAME_ENTRY) }

NextCall ==
    \/ NewVm(TRUE)
    \/ \E i \in 1..Len(CallLibs) :
           /\ uc.made
           /\ \A j \in 1..(i - 1) : CallLibs[j] \in uc.data.library_blobs
           /\ RegisterLibraryBlob(CallLibs[i])
    \/ \E i \in 1..Len(CallLibs) :
           /\ uc.made
           /\ \A j \in 1..Len(CallLibs) : CallLibs[j] \in uc.data.library_blobs
           /\ Len(uc.data.loaded_libraries) = i - 1
           /\ LoadLibrary(CallLibs[i])
    \/ \E target \in ImportSlots(uc, NAME_ENTRY), n \in ArgCounts :
           /\ Len(uc.data.loaded_libraries) = Len(CallLibs)
           /\ steps < MaxInvokes
           /\ InvokeCdecl(target, [i \in 1..n |-> U64FromNat(i)])
           /\ steps' = steps + 1
    \/ \E c \in GuestCases : \E target \in ImportSlots(uc, c.name) :
           /\ result.op = "emu_start"
           /\ GuestCall(target, c.x0, c.x1, c.x2, c.text)
           /\ UNCHANGED steps
    \/ \E host_ok \in BOOLEAN :
           /\ EmuImportHook(host_ok, CHOOSE c \in Clocks : TRUE)
           /\ UNCHANGED alloc_returns
    \/ EmuReturn
    \/ EmuFetchUnmapped
    \/ GuestReturn(uc.regs.x[0])
    \/ GuestFault

SpecCall == InitVm /\ [][NextCall]_vars

---------------------------------------------------------------------------
(* Claims about calls (SpecCall)                                           *)

\* the code hook has just run the shim called name
ShimRan(name) ==
    /\ result.op = "import"
    /\ result.address \in ImportSlots(result.pre, name)

\* the string the shim found at the address in X0
ShimPath ==
    read_c_string(World(result.pre, result.pre_fs, TRUE, CHOOSE c \in Clocks : TRUE, FALSE),
                  result.pre.regs.x[0], 4096)

\* the 4 bytes of the errno cell, if there is one
ErrnoCell(u) ==
    IF u.data.errno_address = <<>> THEN <<>>
    ELSE BytesAt(u.mem, u.data.errno_address[1], 4)

\* the shim returned, with errno = ENOENT and X0 = ~0
ReportedEnoent ==
    /\ result.err = "none"
    /\ ErrnoCell(uc) = U32ToLeBytes(ENOENT)
    /\ result.pre.regs.x[0] # U64Max
    /\ uc.regs.x[0] = U64Max

\* the shim opened or created nothing on the host and the descriptor
\* table is as it was
NothingOpened ==
    /\ fs = result.pre_fs
    /\ uc.data.file_handles = result.pre.data.file_handles

PathShims == {Sym.open, Sym.mkdir, Sym.lstat, Sym.chmod}

\* the 128 bytes a stat structure takes at the address in X1
StatBuffer(u) == BytesAt(u.mem, result.pre.regs.x[1], 128)

\* C2: every shim that takes a guest path (open, mkdir, lstat, chmod)
\* rejects a path outside {"./anisette", "./anisette/adi.pb"} with errno
\* ENOENT and X0 = ~0, leaves the host file system as it was and writes no
\* host metadata into guest memory.  (The empty path that open refuses
\* with an error, C1, is left aside.)
C2_PathShimsRejectPathsOutsideWhitelist ==
    \A name \in PathShims :
        (/\ ShimRan(name)
         /\ result.err = "none"
         /\ ShimPath.err = "none"
         /\ ShimPath.str \notin {PATH_ANISETTE, PATH_ADI_PB}) =>
            /\ ReportedEnoent
            /\ fs = result.pre_fs
            /\ StatBuffer(uc) = StatBuffer(result.pre)

\* C3: when a shim fails during invoke_cdecl, invoke_cdecl returns that
\* error, never an Ok value.
C3_ShimFailureSurfaces ==
    (result.op = "invoke_cdecl" /\ result.hook_err # "none") =>
        result.err = result.hook_err

\* the address IMPORT + k * STRIDE + i * 4
SlotAddress(k, i) == wrapping_add(ImportPage(k), U64FromNat(i * 4))

\* C4: for every loaded library at ordinal k and every entry i of its
\* dynamic symbol table, the address IMPORT + k * STRIDE + i * 4 lies in
\* mapped memory that carries the import code hook.
C4_EverySlotIsMappedAndHooked ==
    uc.made =>
        \A k \in 1..Len(uc.data.loaded_libraries) :
            \A i \in DOMAIN uc.data.loaded_libraries[k].symbols.at :
                /\ IsMapped(uc.mapped, SlotAddress(k - 1, i), U64FromNat(4))
                /\ \E h \in uc.hooks : InRegion(h, SlotAddress(k - 1, i))

\* C8: invoke_cdecl with more than 29 arguments fails with
\* TooManyArguments, having written no register and not started the
\* emulator; with 29 or fewer arguments it does not fail for that reason.
C8_TooManyArgumentsExactlyAbove29 ==
    /\ result.op = "emu_start" => result.nargs <= 29
    /\ (result.op = "invoke_cdecl" /\ result.nargs > 29) =>
           /\ result.err = "TooManyArguments"
           /\ uc = result.pre
           /\ emu = Idle
    /\ (result.op = "invoke_cdecl" /\ result.nargs <= 29) =>
           result.err # "TooManyArguments"

\* a call with 30 arguments has been refused
C8_Witness ==
    /\ result.op = "invoke_cdecl"
    /\ result.nargs = 30
    /\ result.err = "TooManyArguments"
    /\ uc = result.pre

---------------------------------------------------------------------------
(* SpecStrings: a host that stores C strings with alloc_c_string and reads *)
(* them back with EmuCore::read_c_string                                   *)

MaxStrings == 2

\* "", "a", "abc"
TestStrings == {<<>>, <<97>>, <<97, 98, 99>>}

\* the max_len values the host passes
TestMaxLens == {0, 1, 3, 4, 16, PAGE_SIZE, PAGE_SIZE + 1}

\* emu::alloc_c_string; value holds no NUL byte
alloc_c_string(w, value) == alloc_temp_bytes(w, value \o <<0>>, 204)

\* alloc_c_string(&mut core, value); alloc_returns logs what was stored
AllocCString(value) ==
    /\ Ready
    /\ \E w \in {alloc_c_string(HostWorld, value)} :
           /\ Commit(w)
           /\ result' = [op |-> "alloc_c_string", text |-> value, err |-> w.err,
                         value |-> w.value]
           /\ alloc_returns' =
                  IF w.err = "none"
                  THEN Append(alloc_returns, [text |-> value, address |-> w.value])
                  ELSE alloc_returns
    /\ UNCHANGED <<adi, prov, overflow_checks, export_state, allocator, emu, steps>>

\* EmuCore::read_c_string
ReadCString(address, max_len) ==
    /\ Ready
    /\ \E r \in {read_c_string(HostWorld, address, max_len)} :
           result' = [op |-> "read_c_string", address |-> address, max_len |-> max_len,
                      err |-> r.err, str |-> r.str]
    /\ UNCHANGED <<adi, prov, overflow_checks, export_state, panicked, allocator, alloc_returns, uc, fs,
                   emu, steps>>

NextStrings ==
    \/ NewVm(TRUE)
    \/ \E value \in TestStrings :
           Len(alloc_returns) < MaxStrings /\ AllocCString(value)
    \/ \E i \in 1..Len(alloc_returns), max_len \in TestMaxLens :
           ReadCString(alloc_returns[i].address, max_len)

SpecStrings == InitVm /\ [][NextStrings]_vars

---------------------------------------------------------------------------
(* Claims about C strings (SpecStrings)                                    *)

\* the strings stored at the address the last read_c_string started from
StoredAt(address) ==
    {alloc_returns[i].text : i \in {j \in 1..Len(alloc_returns) :
                                       alloc_returns[j].address = address}}

\* C11: for every string s without a NUL byte and every max_len greater
\* than the byte length of s, read_c_string(alloc_c_string(s), max_len)
\* returns s; when max_len is not greater than the length of s the read
\* fails with the unterminated-C-string error.
C11_CStringRoundTrip ==
    result.op = "read_c_string" =>
        \A s \in StoredAt(result.address) :
            IF result.max_len > Len(s)
            THEN result.err = "none" /\ result.str = s
            ELSE result.err = "UnterminatedCString"

---------------------------------------------------------------------------
(* SpecFiles: a host that loads libstoreservicescore.so and calls its      *)
(* entry point once.  The guest code makes a bounded number of calls to    *)
(* the descriptor shims, lstat and __errno, then returns.  alloc_returns   *)
(* logs the descriptors that open has returned.                            *)

MaxGuestCalls == 3

\* "hi"
TEXT_HI == <<104, 105>>

FileCase(name, x0, x1, x2, text) ==
    [name |-> name, x0 |-> x0, x1 |-> x1, x2 |-> x2, text |-> text]

\* what the guest calls: paths and the bytes to write lie at the bottom of
\* the stack, the stat and read buffers at the bottom of the malloc arena
FileCases ==
    { FileCase(Sym.open, STACK_ADDRESS, OPEN_FLAGS, U64FromNat(384), PATH_ADI_PB),
      FileCase(Sym.close, U64Zero, U64Zero, U64Zero, <<>>),
      FileCase(Sym.close, U64One, U64Zero, U64Zero, <<>>),
      FileCase(Sym.read, U64Zero, MALLOC_ADDRESS, U64FromNat(4), <<>>),
      FileCase(Sym.write, U64Zero, STACK_ADDRESS, U64FromNat(2), TEXT_HI),
      FileCase(Sym.ftruncate, U64Zero, U64One, U64Zero, <<>>),
      FileCase(Sym.fstat, U64Zero, MALLOC_ADDRESS, U64Zero, <<>>),
      FileCase(Sym.lstat, STACK_ADDRESS, MALLOC_ADDRESS, U64Zero, PATH_ETC_PASSWD),
      FileCase(Sym.lstat, STACK_ADDRESS, MALLOC_ADDRESS, U64Zero, PATH_ANISETTE),
      FileCase(Sym.errno, U64Zero, U64Zero, U64Zero, <<>>) }

\* the open shim has just returned a descriptor
OpenReturned ==
    /\ result.op = "import"
    /\ result.err = "none"
    /\ result.address \in ImportSlots(result.pre, Sym.open)
    /\ uc.regs.x[0] # U64Max

NextFiles ==
    \/ \E unix \in BOOLEAN : NewVm(unix)
    \/ uc.made /\ RegisterLibraryBlob(LIB_STORESERVICES)
    \/ /\ uc.made
       /\ LIB_STORESERVICES \in uc.data.library_blobs
       /\ uc.data.loaded_libraries = <<>>
       /\ LoadLibrary(LIB_STORESERVICES)
    \/ \E target \in ImportSlots(uc, NAME_ENTRY) :
           /\ result.op = "load_library"
           /\ InvokeCdecl(target, <<>>)
           /\ UNCHANGED steps
    \/ \E c \in FileCases : \E target \in ImportSlots(uc, c.name) :
           /\ steps < MaxGuestCalls
           /\ GuestCall(target, c.x0, c.x1, c.x2, c.text)
           /\ steps' = steps + 1
    \/ \E host_ok \in BOOLEAN :
           /\ EmuImportHook(host_ok, CHOOSE c \in Clocks : TRUE)
           /\ alloc_returns' = IF OpenReturned' THEN Append(alloc_returns, uc'.regs.x[0])
                               ELSE alloc_returns
    \/ GuestReturn(uc.regs.x[0])
    \/ EmuReturn

SpecFiles == InitVm /\ [][NextFiles]_vars

---------------------------------------------------------------------------
(* Claims about the descriptor shims (SpecFiles)                           *)

\* the world the shim that has just run started in
ShimWorld == World(result.pre, result.pre_fs, TRUE, CHOOSE c \in Clocks : TRUE, FALSE)

\* the shim called name has just returned without reporting a failure
ShimSucceeded(name) ==
    /\ ShimRan(name)
    /\ result.err = "none"
    /\ uc.regs.x[0] # U64Max

\* byte i (from 0) of the stat structure of an object with mode M, size Z
StatByte(i, M, Z) ==
    IF i \in 16..19 THEN U32ToLeBytes(M)[i - 15]
    ELSE IF i \in 48..55 THEN U64ToLeBytes(Z)[i - 47]
    ELSE IF i \in 24..27 THEN U32ToLeBytes(33188)[i - 23]
    ELSE IF i \in 88..95 THEN U64ToLeBytes(<<0, 0, \h0101, 0>>)[i - 87]
    ELSE 0

\* the shim wrote these 128 bytes at the out-pointer and nothing else
WroteStat(M, Z) ==
    /\ uc.regs.x[0] = U64Zero
    /\ uc.mem = mem_after_write(result.pre.mem, result.pre.regs.x[1],
                                Bytes([k \in 1..128 |-> StatByte(k - 1, M, Z)]))

\* C12: after a successful lstat or fstat of a host object with mode M and
\* size Z, exactly 128 bytes are written at the out-pointer with
\* bytes[16..20] = M, bytes[48..56] = Z, bytes[20..24] = 0,
\* bytes[24..28] = 0x000081A4, bytes[88..96] = 0x0000000001010000 (all
\* little-endian) and every other byte 0, and X0 is 0.  (A host object has
\* a mode on a unix host.)
C12_StatBytes ==
    /\ (ShimSucceeded(Sym.lstat) /\ result.pre_fs.unix) =>
           /\ Exists(result.pre_fs, ShimPath.str)
           /\ WroteStat(Metadata(result.pre_fs, ShimPath.str).mode,
                        Metadata(result.pre_fs, ShimPath.str).size)
    /\ (ShimSucceeded(Sym.fstat) /\ result.pre_fs.unix) =>
           /\ FdIsOpen(ShimWorld, result.pre.regs.x[0])
           /\ WroteStat(Metadata(result.pre_fs,
                                 FileOf(ShimWorld, result.pre.regs.x[0]).path).mode,
                        Metadata(result.pre_fs,
                                 FileOf(ShimWorld, result.pre.regs.x[0]).path).size)

\* fstat has described an open file of 2 bytes
C12_Witness ==
    /\ ShimSucceeded(Sym.fstat)
    /\ result.pre_fs.unix
    /\ StatBuffer(uc)[17] = S_IFREG_0644 % 256
    /\ StatBuffer(uc)[49] = 2


\* the descriptor the shim that has just run was called with
ShimFd == result.pre.regs.x[0]

\* C16: after any sequence of open and close shim calls in one VM, the
\* descriptor returned by a successful open equals the number of earlier
\* successful opens, no descriptor value is ever returned twice, and
\* close(fd) empties only slot fd, leaving the table length and every other
\* descriptor's handle unchanged.
C16_DescriptorsAreStable ==
    /\ \A i \in 1..Len(alloc_returns) : alloc_returns[i] = U64FromNat(i - 1)
    /\ \A i, j \in 1..Len(alloc_returns) : alloc_returns[i] = alloc_returns[j] => i = j
    /\ (ShimRan(Sym.close) /\ result.err = "none") =>
           /\ Len(uc.data.file_handles) = Len(result.pre.data.file_handles)
           /\ \A k \in 1..Len(uc.data.file_handles) :
                  uc.data.file_handles[k] =
                      IF k = U64ToNat(ShimFd) + 1 THEN <<>>
                      ELSE result.pre.data.file_handles[k]

\* two files were open and close(0) has emptied the first slot only
C16_Witness ==
    /\ ShimRan(Sym.close)
    /\ result.err = "none"
    /\ ShimFd = U64Zero
    /\ alloc_returns = <<U64Zero, U64One>>
    /\ uc.data.file_handles[1] = <<>>
    /\ uc.data.file_handles[2] # <<>>

\* the shims that take a descriptor
FdShims == {Sym.read, Sym.write, Sym.ftruncate, Sym.fstat, Sym.close}

\* C17: read, write, ftruncate, fstat and close called with a descriptor
\* that was never returned by open, or whose slot has already been closed,
\* fail with the invalid-file-descriptor hard error; none of them returns a
\* normal result for such a descriptor.
C17_BadDescriptorIsHardError ==
    \A name \in FdShims :
        (ShimRan(name) /\ ~FdIsOpen(ShimWorld, ShimFd)) =>
            result.err = "InvalidFileDescriptor"

\* C18: in one VM the errno cell is allocated at most once: every __errno
\* call and every errno write by a shim use the same guest address
\* whichever of them happens first, that address never changes afterwards,
\* and the value a failing shim wrote is read back as a little-endian u32
\* at the address __errno returns.  (The errno cell is the only temp
\* allocation of SpecFiles.)
C18_ErrnoCellIsAllocatedOnce ==
    /\ TempPages(uc) <= 1
    /\ (result.op = "import" /\ result.err = "none") =>
           /\ result.pre.data.errno_address # <<>> =>
                  uc.data.errno_address = result.pre.data.errno_address
           /\ ShimRan(Sym.errno) =>
                  /\ uc.data.errno_address # <<>>
                  /\ uc.regs.x[0] = uc.data.errno_address[1]
                  /\ ErrnoCell(uc) = ErrnoCell(result.pre) \/ ErrnoCell(result.pre) = <<>>
           /\ (~ShimRan(Sym.errno) /\ uc.regs.x[0] = U64Max) =>
                  ErrnoCell(uc) = U32ToLeBytes(ENOENT)

\* a shim has failed, and __errno then returned the address of the cell
\* that holds ENOENT
C18_Witness ==
    /\ ShimRan(Sym.errno)
    /\ result.err = "none"
    /\ result.pre.data.errno_address = <<uc.regs.x[0]>>
    /\ BytesAt(uc.mem, uc.regs.x[0], 4) = U32ToLeBytes(ENOENT)

---------------------------------------------------------------------------
(* The ADI façade (adi.rs)                                                 *)
(* adi = [made, ctor, init, p, call]: an Adi value exists (made) or        *)
(* Adi::new is running (ctor) with the AdiInit `init`; p holds the         *)
(* resolved entry points by method, call the method whose guest call is    *)
(* in flight and the buffers it allocated.  A method's outcome is          *)
(* [err, name, code, reads, value]: reads lists the guest addresses it     *)
(* read after the call.                                                    *)

\* the entry point each method calls
EntryPointOf ==
    [ load_library_with_path |-> NAME_LOAD_LIBRARY_WITH_PATH,
      set_identifier |-> NAME_ENTRY,
      set_provisioning_path |-> NAME_SET_PROVISIONING_PATH,
      is_machine_provisioned |-> NAME_GET_LOGIN_CODE,
      start_provisioning |-> NAME_PROVISIONING_START,
      end_provisioning |-> NAME_PROVISIONING_END,
      request_otp |-> NAME_OTP_REQUEST ]

\* the name each method reports a failed call under
AdiName ==
    [ load_library_with_path |-> "ADILoadLibraryWithPath",
      set_identifier |-> "ADISetAndroidID",
      set_provisioning_path |-> "ADISetProvisioningPath",
      is_machine_provisioned |-> "ADIGetLoginCode",
      start_provisioning |-> "ADIProvisioningStart",
      end_provisioning |-> "ADIProvisioningEnd",
      request_otp |-> "ADIOTPRequest" ]

\* the sentinel of is_machine_provisioned
NOT_PROVISIONED == -45061

\* `value as u32 as i32`
AsI32(value) ==
    IF value[3] >= 2^15 THEN (value[3] - Limb) * Limb + value[4]
    ELSE value[3] * Limb + value[4]

Outcome(err, name, code, reads, value) ==
    [err |-> err, name |-> name, code |-> code, reads |-> reads, value |-> value]

Ok(value) == Outcome("none", "", 0, <<>>, value)

\* a check that lets every return value pass
ensure_zero_return_unchecked(name, value) == Ok(<<>>)

\* emu::ensure_zero_return
ensure_zero_return(name, value) ==
    IF AsI32(value) = 0 THEN Ok(<<>>)
    ELSE Outcome("AdiCallFailed", name, AsI32(value), <<>>, <<>>)

\* a translation without the not-provisioned sentinel
login_code_outcome_without_sentinel(ret) ==
    IF AsI32(ret) = 0 THEN Ok(TRUE)
    ELSE Outcome("AdiCallFailed", AdiName.is_machine_provisioned, AsI32(ret), <<>>, <<>>)

\* Adi::is_machine_provisioned once invoke_cdecl has returned Ok(ret)
login_code_outcome(ret) ==
    IF AsI32(ret) = 0 THEN Ok(TRUE)
    ELSE IF AsI32(ret) = NOT_PROVISIONED THEN Ok(FALSE)
    ELSE Outcome("AdiCallFailed", AdiName.is_machine_provisioned, AsI32(ret), <<>>, <<>>)

NoReads == [err |-> "none", reads |-> <<>>, vals |-> <<>>]

\* EmuCore::read_u32 / read_u64 / read_data of len bytes at address, after
\* the reads in r
ReadMore(u, r, address, len) ==
    IF r.err # "none" THEN r
    ELSE IF ~IsMapped(u.mapped, address, len)
    THEN [r EXCEPT !.err = "Unicorn(READ_UNMAPPED)", !.reads = Append(@, address)]
    ELSE [r EXCEPT !.reads = Append(@, address),
                   !.vals = Append(@, BytesAt(u.mem, address, U64ToNat(len)))]

\* read_u64(p_ptr), read_u32(p_len), read_data(ptr, len)
ReadBuffer(u, r, p_ptr, p_len) ==
    Bind(ReadMore(u, r, p_ptr, U64FromNat(8)), LAMBDA r1 :
    Bind(ReadMore(u, r1, p_len, U64FromNat(4)), LAMBDA r2 :
        IF r2.err # "none" THEN r2
        ELSE ReadMore(u, r2, U64FromLeBytes(r2.vals[Len(r2.vals) - 1]),
                      U64FromLeBytes(r2.vals[Len(r2.vals)] \o <<0, 0, 0, 0>>))))

\* the tail of start_provisioning: cpim and session
ReadStartResult(u, bufs) ==
    Bind(ReadMore(u, ReadBuffer(u, NoReads, bufs[1], bufs[2]), bufs[3], U64FromNat(4)),
         LAMBDA r :
        Outcome(r.err, "", 0, r.reads,
                IF r.err # "none" THEN <<>>
                ELSE [cpim |-> r.vals[3], session |-> r.vals[4]]))

\* the tail of request_otp: otp and machine_id
ReadOtpResult(u, bufs) ==
    Bind(ReadBuffer(u, ReadBuffer(u, NoReads, bufs[1], bufs[2]), bufs[3], bufs[4]),
         LAMBDA r :
        Outcome(r.err, "", 0, r.reads,
                IF r.err # "none" THEN <<>>
                ELSE [otp |-> r.vals[3], machine_id |-> r.vals[6]]))

\* what a method returns once invoke_cdecl has returned Ok(ret)
AdiOutcome(u, call, ret) ==
    IF call.method = "is_machine_provisioned" THEN login_code_outcome(ret)
    ELSE Bind(ensure_zero_return(AdiName[call.method], ret), LAMBDA z :
         IF z.err # "none" THEN z
         ELSE IF call.method = "start_provisioning" THEN ReadStartResult(u, call.bufs)
         ELSE IF call.method = "request_otp" THEN ReadOtpResult(u, call.bufs)
         ELSE z)

\* alloc_temporary(length): length.max(1) bytes of 0xAA
Temp(length) ==
    [data |-> [i \in 1..(IF length > 1 THEN length ELSE 1) |-> 170], pad |-> 170, zeros |-> 0]

\* alloc_data(data)
Data(data) == [data |-> data, pad |-> 204, zeros |-> 0]

\* alloc_data(data followed by `zeros` zero bytes)
LongData(data, zeros) == [data |-> data, pad |-> 204, zeros |-> zeros]

\* a request_otp that allocates a spare buffer
Buffers_otp_with_spare_buffer(method, arg) ==
    CASE method = "set_identifier" -> <<Data(arg.identifier)>>
      [] method \in {"set_provisioning_path", "load_library_with_path"}
            -> <<Data(arg.path \o <<0>>)>>
      [] method = "start_provisioning"
            -> <<Temp(8), Temp(4), Temp(4), LongData(arg.spim, arg.spim_zeros)>>
      [] method = "end_provisioning" -> <<Data(arg.ptm), Data(arg.tk)>>
      [] method = "request_otp" -> <<Temp(8), Temp(4), Temp(8), Temp(4), Temp(4)>>
      [] OTHER -> <<>>

\* the buffers a method allocates before its guest call, in order
Buffers(method, arg) ==
    CASE method = "set_identifier" -> <<Data(arg.identifier)>>
      [] method \in {"set_provisioning_path", "load_library_with_path"}
            -> <<Data(arg.path \o <<0>>)>>
      [] method = "start_provisioning" -> <<Temp(8), Temp(4), Temp(4), LongData(arg.spim, arg.spim_zeros)>>
      [] method = "end_provisioning" -> <<Data(arg.ptm), Data(arg.tk)>>
      [] method = "request_otp" -> <<Temp(8), Temp(4), Temp(8), Temp(4)>>
      [] OTHER -> <<>>

\* the arguments of the guest call and the buffers to read back, given the
\* addresses a of the method's buffers
CallOf(method, p, arg, a) ==
    [ target |-> p[method],
      args |->
        CASE method = "set_identifier" -> <<a[1], U64FromNat(Len(arg.identifier))>>
          [] method \in {"set_provisioning_path", "load_library_with_path"} -> <<a[1]>>
          [] method = "start_provisioning"
                -> <<arg.dsid, a[4], U64FromNat(Len(arg.spim) + arg.spim_zeros), a[1], a[2], a[3]>>
          [] method = "is_machine_provisioned" -> <<arg.dsid>>
          [] method = "end_provisioning"
                -> << U64FromLeBytes(arg.session \o <<0, 0, 0, 0>>), a[1],
                      U64FromNat(Len(arg.ptm)), a[2], U64FromNat(Len(arg.tk)) >>
          [] method = "request_otp" -> <<arg.dsid, a[3], a[4], a[1], a[2]>>,
      bufs |-> IF method \in {"start_provisioning", "request_otp"} THEN a ELSE <<>> ]

\* the allocations of a method one after the other; the addresses come
\* back in w.value
RECURSIVE AllocEach(_, _, _)
AllocEach(w, items, got) ==
    IF Len(got) = Len(items) THEN Return(w, got)
    ELSE Bind(items[Len(got) + 1], LAMBDA item :
         Try(IF item.zeros = 0 THEN alloc_temp_bytes(w, item.data, item.pad)
             ELSE alloc_temp_long(w, item.data, item.zeros, item.pad),
             LAMBDA w1 : AllocEach(w1, items, Append(got, w1.value))))

\* a method up to its invoke_cdecl: the call comes back in w.value
PrepareCall(method, w, p, arg) ==
    Try(AllocEach(w, Buffers(method, arg), <<>>), LAMBDA w1 :
    Return(w1, CallOf(method, p, arg, w1.value)))


\* char::is_whitespace on ASCII
IsSpace(c) == c \in {9, 10, 11, 12, 13, 32}

\* the elements of s at the indices in keep, in order
Pick(s, keep) ==
    [k \in 1..Cardinality(keep) |->
        s[CHOOSE i \in keep : Cardinality({j \in keep : j < i}) = k - 1]]

\* emu::normalize_library_root: trimmed, runs of '/' collapsed, no '/' at
\* the end of a path longer than one character
normalize_library_root(path) ==
    LET trimmed == Pick(path, {i \in 1..Len(path) :
                                  /\ \E j \in 1..i : ~IsSpace(path[j])
                                  /\ \E j \in i..Len(path) : ~IsSpace(path[j])})
        out == Pick(trimmed, {i \in 1..Len(trimmed) :
                                 ~(trimmed[i] = SLASH /\ i > 1 /\ trimmed[i - 1] = SLASH)})
    IN  IF Len(out) > 1 /\ out[Len(out)] = SLASH THEN SubSeq(out, 1, Len(out) - 1)
        ELSE out

\* EmuCore::set_library_root
set_library_root(u, path) ==
    IF normalize_library_root(path) = <<>> THEN u
    ELSE [u EXCEPT !.data.library_root = <<normalize_library_root(path)>>]

\* the seven resolve_symbol_by_name calls of Adi::new: the entry points
\* come back in w.value
ResolveEntryPoints(w, library_index) ==
    LET found(m) == resolve_symbol_from_loaded_library_by_name(
                        w, library_index, EntryPointOf[m])
    IN  IF \E m \in DOMAIN EntryPointOf : found(m).err # "none"
        THEN Fail(w, "SymbolNotFound")
        ELSE Return(w, [m \in DOMAIN EntryPointOf |-> found(m).value])

\* Adi::new up to the first guest call: the entry points come back in
\* w.value
AdiCore(init, checks) ==
    Try(load_library_by_name(
            World([set_library_root(new_arm64, init.library_path)
                      EXCEPT !.data.library_blobs = {LIB_STORESERVICES, LIB_COREADI}],
                  HostFs(TRUE), TRUE, CHOOSE c \in Clocks : TRUE, checks),
            LIB_STORESERVICES),
        LAMBDA w1 : ResolveEntryPoints(w1, U64ToNat(w1.value)))

\* the arguments of a method; spim_zeros zero bytes follow the bytes spim
Arg(dsid, spim, session, ptm, tk, identifier, path) ==
    [dsid |-> dsid, spim |-> spim, spim_zeros |-> 0, session |-> session, ptm |-> ptm,
     tk |-> tk, identifier |-> identifier, path |-> path]

\* the arguments of the calls Adi::new makes
CtorArg(init) ==
    Arg(U64Zero, <<>>, <<0, 0, 0, 0>>, <<>>, <<>>,
        IF init.identifier = <<>> THEN <<>> ELSE init.identifier[1],
        init.library_path)

\* an Adi::new that goes from the library path straight to the identifier
CtorNext_without_provisioning_path(after, init) ==
    IF after # "set_identifier" /\ init.identifier # <<>> /\ init.identifier[1] # <<>>
    THEN "set_identifier"
    ELSE "done"

\* the call of Adi::new that follows the one named after, or "done"
CtorNext(after, init) ==
    IF after = "load_library_with_path" /\ init.provisioning_path # <<>>
    THEN "set_provisioning_path"
    ELSE IF after # "set_identifier" /\ init.identifier # <<>> /\ init.identifier[1] # <<>>
    THEN "set_identifier"
    ELSE "done"

\* what a method (or Adi::new) has returned
AdiResult(method, o, ret) ==
    [op |-> "adi", method |-> method, err |-> o.err, name |-> o.name, code |-> o.code,
     reads |-> o.reads, value |-> o.value, ret |-> ret]

\* A method of the Adi value a has prepared its call in world w: it fails
\* before the guest call (Adi::new then returns no Adi and the emulator is
\* dropped), or invoke_cdecl writes the registers and emu_start takes over.
AdiStart(method, w, a) ==
    /\ fs' = w.fs
    /\ panicked' = (w.err = "panic")
    /\ IF w.err # "none"
       THEN /\ uc' = IF a.ctor THEN NoVm ELSE w.uc
            /\ emu' = Idle
            /\ adi' = IF a.ctor THEN NoAdi ELSE [a EXCEPT !.call = NoCall]
            /\ result' = AdiResult(IF a.ctor THEN "new" ELSE method,
                                   Outcome(w.err, "", 0, <<>>, <<>>), <<>>)
       ELSE /\ uc' = SetCallRegisters(w.uc, w.value.target, w.value.args)
            /\ emu' = [phase |-> "running", address |-> w.value.target,
                       nargs |-> Len(w.value.args), hook_err |-> "none", pre |-> w.uc]
            /\ adi' = [a EXCEPT !.call = [method |-> method, bufs |-> w.value.bufs]]
            /\ result' = [op |-> "emu_start", address |-> w.value.target,
                          nargs |-> Len(w.value.args)]

\* Adi::new(init) up to its first guest call, load_library_with_path
AdiNew(init) ==
    /\ ~uc.made /\ ~panicked /\ ~adi.made /\ ~adi.ctor
    /\ \E w \in {AdiCore(init, overflow_checks)} :
           AdiStart("load_library_with_path",
                    Try(w, LAMBDA w1 :
                        PrepareCall("load_library_with_path", w1, w1.value, CtorArg(init))),
                    [made |-> FALSE, ctor |-> TRUE, init |-> <<init>>,
                     p |-> IF w.err = "none" THEN <<w.value>> ELSE <<>>, call |-> NoCall])
    /\ UNCHANGED <<prov, overflow_checks, export_state, allocator, alloc_returns>>

\* a method of an existing Adi up to its guest call; set_identifier skips
\* an empty identifier
AdiCall(method, arg) ==
    /\ Ready
    /\ adi.made
    /\ adi.call = NoCall
    /\ IF method = "set_identifier" /\ arg.identifier = <<>>
       THEN /\ result' = AdiResult(method, Ok(<<>>), <<>>)
            /\ UNCHANGED <<uc, fs, emu, adi, panicked>>
       ELSE \E w \in {PrepareCall(method, HostWorld, adi.p[1], arg)} :
                AdiStart(method, w, adi)
    /\ UNCHANGED <<prov, overflow_checks, export_state, allocator, alloc_returns>>

\* invoke_cdecl has returned to the method that made the call: the method
\* returns its result; inside Adi::new the constructor goes on to its next
\* call or returns the Adi
AdiFinish ==
    /\ Ready
    /\ adi.call # NoCall
    /\ result.op = "invoke_cdecl"
    /\ \E o \in {IF result.err # "none" THEN Outcome(result.err, "", 0, <<>>, <<>>)
                 ELSE AdiOutcome(uc, adi.call, result.value)} :
       \E ret \in {IF result.err = "none" THEN <<result.value>> ELSE <<>>} :
           IF ~adi.ctor
           THEN /\ result' = AdiResult(adi.call.method, o, ret)
                /\ adi' = [adi EXCEPT !.call = NoCall]
                /\ UNCHANGED <<uc, fs, emu, panicked>>
           ELSE IF o.err # "none"
           THEN /\ result' = AdiResult("new", o, ret)
                /\ adi' = NoAdi
                /\ uc' = NoVm
                /\ UNCHANGED <<fs, emu, panicked>>
           ELSE \E next \in {CtorNext(adi.call.method, adi.init[1])} :
                IF next = "done"
                THEN /\ result' = AdiResult("new", o, ret)
                     /\ adi' = [adi EXCEPT !.made = TRUE, !.ctor = FALSE, !.call = NoCall]
                     /\ UNCHANGED <<uc, fs, emu, panicked>>
                ELSE AdiStart(next,
                              PrepareCall(next, HostWorld, adi.p[1],
                                  [CtorArg(adi.init[1]) EXCEPT !.path =
                                      IF next = "set_provisioning_path"
                                      THEN adi.init[1].provisioning_path[1] ELSE @]),
                              adi)
    /\ UNCHANGED <<prov, overflow_checks, export_state, allocator, alloc_returns>>

\* a run of guest code that stores bytes: writes is a sequence of
\* [address, bytes]
RECURSIVE MemAfterWrites(_, _, _)
MemAfterWrites(m, writes, i) ==
    IF i > Len(writes) THEN m
    ELSE MemAfterWrites(mem_after_write(m, writes[i].address, Bytes(writes[i].bytes)),
                        writes, i + 1)

GuestStores(writes) ==
    /\ Running
    /\ InGuestCode(uc)
    /\ \A i \in 1..Len(writes) :
           IsMapped(uc.mapped, writes[i].address, U64FromNat(Len(writes[i].bytes)))
    /\ uc' = [uc EXCEPT !.mem = MemAfterWrites(@, writes, 1)]
    /\ result' = [op |-> "guest_stores"]
    /\ UNCHANGED <<adi, prov, overflow_checks, export_state, panicked, allocator, alloc_returns, fs, emu,
                   steps>>

---------------------------------------------------------------------------
(* SpecAdi: a host that constructs an Adi and calls its methods.  The      *)
(* guest code behind an entry point stores results or not, then returns a  *)
(* value of its choice or faults.                                          *)

MaxAdiCalls == 1

\* "./lib/ "
PATH_LIB == <<46, 47, 108, 105, 98, 47, 32>>

\* "id"
TEXT_ID == <<105, 100>>

AdiInit(library_path, provisioning_path, identifier) ==
    [library_path |-> library_path, provisioning_path |-> provisioning_path,
     identifier |-> identifier]

TestInits ==
    { AdiInit(PATH_LIB, <<>>, <<>>),
      AdiInit(PATH_LIB, <<PATH_ANISETTE>>, <<TEXT_ID>>),
      AdiInit(PATH_LIB, <<>>, << <<>> >>) }

\* dsid 0xFFFF_FFFF_FFFF_FFFE with identifier "id" or ""
TestArgs ==
    { Arg(<<Limb - 1, Limb - 1, Limb - 1, Limb - 2>>, <<1, 2, 3>>, <<7, 0, 0, 0>>,
          <<4>>, <<5, 6>>, identifier, PATH_ANISETTE) : identifier \in {TEXT_ID, <<>>} }

\* what the guest returns in X0: 0, 1, 2^32, -45061 as a u32 and as an i64
TestReturns ==
    { U64Zero, U64One, <<0, 1, 0, 0>>, <<0, 0, Limb - 1, \h4FFB>>,
      <<Limb - 1, Limb - 1, Limb - 1, \h4FFB>> }

\* the results the guest stores for the call in flight: 2 bytes in the
\* malloc arena for every (pointer, length) pair, and session 7
OutputWrites(call) ==
    IF call.method = "start_provisioning"
    THEN << [address |-> MALLOC_ADDRESS, bytes |-> <<1, 2>>],
            [address |-> call.bufs[1], bytes |-> U64ToLeBytes(MALLOC_ADDRESS)],
            [address |-> call.bufs[2], bytes |-> U32ToLeBytes(2)],
            [address |-> call.bufs[3], bytes |-> U32ToLeBytes(7)] >>
    ELSE << [address |-> MALLOC_ADDRESS, bytes |-> <<1, 2, 3, 4>>],
            [address |-> call.bufs[1], bytes |-> U64ToLeBytes(MALLOC_ADDRESS)],
            [address |-> call.bufs[2], bytes |-> U32ToLeBytes(2)],
            [address |-> call.bufs[3],
             bytes |-> U64ToLeBytes(wrapping_add(MALLOC_ADDRESS, U64FromNat(2)))],
            [address |-> call.bufs[4], bytes |-> U32ToLeBytes(2)] >>

NextAdi ==
    \/ \E init \in TestInits : result.op = "none" /\ AdiNew(init) /\ UNCHANGED steps
    \/ \E method \in DOMAIN EntryPointOf, arg \in TestArgs :
           /\ steps < MaxAdiCalls
           /\ method = "set_identifier" \/ arg.identifier = TEXT_ID
           /\ AdiCall(method, arg)
           /\ steps' = steps + 1
    \/ /\ adi.call.method \in {"start_provisioning", "request_otp"}
       /\ result.op = "emu_start"
       /\ GuestStores(OutputWrites(adi.call))
    \/ \E value \in TestReturns : GuestReturn(value)
    \/ GuestFault
    \/ EmuReturn
    \/ AdiFinish /\ UNCHANGED steps

SpecAdi == InitVm /\ [][NextAdi]_vars

---------------------------------------------------------------------------
(* Claims about the ADI façade (SpecAdi)                                   *)

\* the low 32 bits of x0 as a signed number
Code32(x0) ==
    IF x0[3] < 2^15 THEN x0[3] * Limb + x0[4]
    ELSE -((Limb - 1 - x0[3]) * Limb + (Limb - x0[4]))

\* the method has returned after its guest call returned X0 = result.ret[1]
MethodReturned(method) ==
    /\ result.op = "adi"
    /\ result.method = method
    /\ result.ret # <<>>

\* C13: is_machine_provisioned returns true when the guest call returns
\* code 0, false when it returns -45061, and an ADI-call-failed error
\* carrying the signed 32-bit code for every other return value (the code
\* being the signed 32-bit value the call returns in X0).
C13_LoginCodeTranslation ==
    MethodReturned("is_machine_provisioned") =>
        IF Code32(result.ret[1]) = 0
        THEN result.err = "none" /\ result.value = TRUE
        ELSE IF Code32(result.ret[1]) = -45061
        THEN result.err = "none" /\ result.value = FALSE
        ELSE /\ result.err = "AdiCallFailed"
             /\ result.name = "ADIGetLoginCode"
             /\ result.code = Code32(result.ret[1])

\* the guest returned -45061 and is_machine_provisioned returned false
C13_Witness ==
    /\ MethodReturned("is_machine_provisioned")
    /\ result.ret[1] = <<0, 0, Limb - 1, \h4FFB>>
    /\ result.err = "none"
    /\ result.value = FALSE

\* the methods that pass the return value to ensure_zero_return
ZeroReturnMethods ==
    { "start_provisioning", "end_provisioning", "request_otp", "set_identifier",
      "set_provisioning_path", "load_library_with_path" }

\* the method reported the failed call and read nothing back
ReportedAdiCallFailed(method) ==
    /\ result.err = "AdiCallFailed"
    /\ result.name = AdiName[method]
    /\ result.code = Code32(result.ret[1])
    /\ result.reads = <<>>

\* C14 as stated: for start_provisioning, end_provisioning, request_otp,
\* set_identifier, set_provisioning_path and load_library_with_path, the
\* operation succeeds only if the guest's 64-bit X0 return value is zero;
\* every non-zero X0 value is reported as an ADI-call-failed error with the
\* call name and a signed 32-bit code, and no output buffers are read back
\* in that case.
C14_NonZeroReturnFails ==
    \A method \in ZeroReturnMethods :
        MethodReturned(method) =>
            /\ result.err = "none" => result.ret[1] = U64Zero
            /\ result.ret[1] # U64Zero => ReportedAdiCallFailed(method)

\* C14, amended: once the guest call has returned, the operation succeeds
\* only if the low 32 bits of the guest's X0 return value are zero; every
\* X0 value whose low 32 bits are not zero is reported as an
\* ADI-call-failed error with the call name and those bits as a signed
\* 32-bit code, and no output buffers are read back in that case.
C14_NonZeroCodeFails ==
    \A method \in ZeroReturnMethods :
        MethodReturned(method) =>
            /\ result.err = "none" => Code32(result.ret[1]) = 0
            /\ Code32(result.ret[1]) # 0 => ReportedAdiCallFailed(method)

\* the guest stored a cpim and a session and returned 1: start_provisioning
\* reported code 1 and read nothing
C14_Witness ==
    /\ MethodReturned("start_provisioning")
    /\ result.ret[1] = U64One
    /\ ReportedAdiCallFailed("start_provisioning")
    /\ BytesAt(uc.mem, MALLOC_ADDRESS, 2) = <<1, 2>>

---------------------------------------------------------------------------
(* ProvisioningSession (provisioning.rs, provisioning_wasm.rs).  An HTTP   *)
(* exchange is an input: it fails or delivers a body, and the body parses  *)
(* as an XML property list or does not.  prov is the session: pc is the    *)
(* point provision has reached, url_bag the bag, finish_url the URL of the *)
(* finish request, and log the steps the call in progress has taken.       *)

\* the character of a 6-bit value in the standard alphabet
Base64Char(v) ==
    IF v < 26 THEN 65 + v
    ELSE IF v < 52 THEN 97 + (v - 26)
    ELSE IF v < 62 THEN 48 + (v - 52)
    ELSE IF v = 62 THEN 43 ELSE 47

\* the 6-bit value of a character, 64 for a character outside the alphabet
Base64Value(c) ==
    IF c >= 65 /\ c <= 90 THEN c - 65
    ELSE IF c >= 97 /\ c <= 122 THEN c - 97 + 26
    ELSE IF c >= 48 /\ c <= 57 THEN c - 48 + 52
    ELSE IF c = 43 THEN 62
    ELSE IF c = 47 THEN 63 ELSE 64

\* STANDARD.encode: four characters for every three bytes, padded with '='
\* (61)
Base64Encode(bytes) ==
    LET n == Len(bytes)
        byte(j) == IF j <= n THEN bytes[j] ELSE 0
        group(g) == byte(3 * g + 1) * 65536 + byte(3 * g + 2) * 256 + byte(3 * g + 3)
    IN  [i \in 1..(4 * ((n + 2) \div 3)) |->
            LET g == (i - 1) \div 4
                k == (i - 1) % 4
            IN  IF k > n - 3 * g THEN 61
                ELSE Base64Char((group(g) \div (64 ^ (3 - k))) % 64)]

Step(err, value) == [err |-> err, value |-> value]

\* STANDARD.decode: canonical padding, no stray bits behind the data
Base64Decode(text) ==
    LET n == Len(text)
        pad == IF n > 1 /\ text[n] = 61
               THEN (IF text[n - 1] = 61 THEN 2 ELSE 1)
               ELSE 0
        six(i) == IF i > n - pad THEN 0 ELSE Base64Value(text[i])
        group(g) == six(4 * g + 1) * 262144 + six(4 * g + 2) * 4096
                        + six(4 * g + 3) * 64 + six(4 * g + 4)
    IN  IF \/ n % 4 # 0
           \/ \E i \in 1..(n - pad) : Base64Value(text[i]) = 64
           \/ pad = 1 /\ six(n - 1) % 4 # 0
           \/ pad = 2 /\ six(n - 2) % 16 # 0
        THEN Step("Base64", <<>>)
        ELSE Step("none", [j \in 1..(3 * (n \div 4) - pad) |->
                      (group((j - 1) \div 3) \div (256 ^ (2 - ((j - 1) % 3)))) % 256])

\* plist::Value
PString(text) == [type |-> "string", text |-> text]
PDict(entries) == [type |-> "dict", entries |-> entries]
as_dictionary(v) == IF v.type = "dict" THEN <<v.entries>> ELSE <<>>
as_string(v) == IF v.type = "string" THEN <<v.text>> ELSE <<>>
dict_get(d, key) == IF key \in DOMAIN d THEN <<d[key]>> ELSE <<>>

\* an HTTP exchange
HttpOk(plist) == [ok |-> TRUE, plist |-> <<plist>>]
HttpGarbage == [ok |-> TRUE, plist |-> <<>>]
HttpError == [ok |-> FALSE, plist |-> <<>>]

\* get or post_with_time, then parse_plist
FetchPlist(response) ==
    IF ~response.ok THEN Step("Http", <<>>)
    ELSE IF Len(response.plist) = 0 THEN Step("Plist", <<>>)
    ELSE Step("none", response.plist[1])

plist_get_string_in_response(plist, key) ==
    IF Len(as_dictionary(plist)) = 0 THEN Step("plist root is not a dictionary", <<>>)
    ELSE LET response == dict_get(as_dictionary(plist)[1], "Response")
         IN  IF Len(response) = 0 \/ Len(as_dictionary(response[1])) = 0
             THEN Step("plist missing Response dictionary", <<>>)
             ELSE LET value == dict_get(as_dictionary(response[1])[1], key)
                  IN  IF Len(value) = 0 THEN Step("plist Response missing key", <<>>)
                      ELSE IF Len(as_string(value[1])) = 0
                      THEN Step("plist Response field is not a string", <<>>)
                      ELSE Step("none", as_string(value[1])[1])

\* load_url_bag: the bag that replaces the old one
load_url_bag(response) ==
    LET fetched == FetchPlist(response)
    IN  IF fetched.err # "none" THEN fetched
        ELSE IF Len(as_dictionary(fetched.value)) = 0
        THEN Step("lookup plist root is not a dictionary", <<>>)
        ELSE LET urls == dict_get(as_dictionary(fetched.value)[1], "urls")
             IN  IF Len(urls) = 0 \/ Len(as_dictionary(urls[1])) = 0
                 THEN Step("lookup plist missing urls dictionary", <<>>)
                 ELSE LET d == as_dictionary(urls[1])[1]
                      IN  Step("none", [k \in {k \in DOMAIN d : d[k].type = "string"}
                                            |-> d[k].text])

\* the start request: the spim of its response
StartFields(response) ==
    LET fetched == FetchPlist(response)
    IN  IF fetched.err # "none" THEN fetched
        ELSE LET spim_b64 == plist_get_string_in_response(fetched.value, "spim")
             IN  IF spim_b64.err # "none" THEN spim_b64 ELSE Base64Decode(spim_b64.value)

\* the finish request: the ptm and the tk of its response
FinishFields(response) ==
    LET fetched == FetchPlist(response)
    IN  IF fetched.err # "none" THEN fetched
        ELSE LET ptm_b64 == plist_get_string_in_response(fetched.value, "ptm")
                 tk_b64 == plist_get_string_in_response(fetched.value, "tk")
             IN  IF ptm_b64.err # "none" THEN ptm_b64
                 ELSE IF tk_b64.err # "none" THEN tk_b64
                 ELSE IF Base64Decode(ptm_b64.value).err # "none"
                 THEN Base64Decode(ptm_b64.value)
                 ELSE IF Base64Decode(tk_b64.value).err # "none"
                 THEN Base64Decode(tk_b64.value)
                 ELSE Step("none", [ptm |-> Base64Decode(ptm_b64.value).value,
                                    tk |-> Base64Decode(tk_b64.value).value])

KEY_START == "midStartProvisioning"
KEY_FINISH == "midFinishProvisioning"

Plan(err, url_bag, log, spim) ==
    [err |-> err, url_bag |-> url_bag, log |-> log, spim |-> spim]

\* provision up to adi.start_provisioning: the URL-bag lookup when the bag
\* is empty, the two URLs, the start request
ProvisionPlan(bag, lookup, start_response) ==
    LET looked == IF DOMAIN bag = {} THEN load_url_bag(lookup) ELSE Step("none", bag)
        log0 == IF DOMAIN bag = {} THEN <<[step |-> "lookup", err |-> looked.err]>>
                ELSE <<>>
    IN  IF looked.err # "none" THEN Plan(looked.err, bag, log0, <<>>)
        ELSE IF KEY_START \notin DOMAIN looked.value
        THEN Plan("url bag missing midStartProvisioning", looked.value, log0, <<>>)
        ELSE IF KEY_FINISH \notin DOMAIN looked.value
        THEN Plan("url bag missing midFinishProvisioning", looked.value, log0, <<>>)
        ELSE LET spim == StartFields(start_response)
             IN  Plan(spim.err, looked.value,
                      Append(log0, [step |-> "start_post", url |-> looked.value[KEY_START],
                                    err |-> spim.err]),
                      spim.value)

\* what provision has returned; ret is the X0 of the last guest call
ProvisionResult(err, ret) == [op |-> "provision", err |-> err, ret |-> ret]

\* the last step of the log has ended with err
Closed(log, err) == [log EXCEPT ![Len(log)].err = err]

\* ProvisioningSession::new; build_http_client fails or not
ProvisioningSession_new(client_ok) ==
    /\ Ready
    /\ adi.made
    /\ adi.call = NoCall
    /\ prov.pc = "none"
    /\ prov' = IF client_ok
               THEN [pc |-> "idle", url_bag |-> <<>>, finish_url |-> "", log |-> <<>>]
               ELSE prov
    /\ result' = [op |-> "session_new", err |-> IF client_ok THEN "none" ELSE "Http"]
    /\ UNCHANGED <<adi, overflow_checks, export_state, panicked, allocator, alloc_returns, uc, fs, emu>>

\* provision(dsid) up to the guest call of adi.start_provisioning
Provision(dsid, lookup, start_response) ==
    /\ Ready
    /\ adi.made
    /\ adi.call = NoCall
    /\ prov.pc = "idle"
    /\ \E plan \in {ProvisionPlan(prov.url_bag, lookup, start_response)} :
           IF plan.err # "none"
           THEN /\ prov' = [prov EXCEPT !.url_bag = plan.url_bag, !.log = plan.log]
                /\ result' = ProvisionResult(plan.err, <<>>)
                /\ UNCHANGED <<adi, panicked, uc, fs, emu>>
           ELSE /\ prov' = [pc |-> "start_provisioning", url_bag |-> plan.url_bag,
                            finish_url |-> plan.url_bag[KEY_FINISH],
                            log |-> Append(plan.log,
                                       [step |-> "start_provisioning", dsid |-> dsid,
                                        spim |-> plan.spim, err |-> "pending"])]
                /\ AdiStart("start_provisioning",
                            PrepareCall("start_provisioning", HostWorld, adi.p[1],
                                        Arg(dsid, plan.spim, <<0, 0, 0, 0>>, <<>>, <<>>,
                                            <<>>, <<>>)),
                            adi)
    /\ UNCHANGED <<overflow_checks, export_state, allocator, alloc_returns>>

\* the arguments of end_provisioning with a session of 0
EndArgSessionZero(start, fields) ==
    Arg(U64Zero, <<>>, <<0, 0, 0, 0>>, fields.ptm, fields.tk, <<>>, <<>>)

\* the arguments of adi.end_provisioning(start.session, &ptm, &tk)
EndArg(start, fields) ==
    Arg(U64Zero, <<>>, start.session, fields.ptm, fields.tk, <<>>, <<>>)

\* adi.start_provisioning has returned: provision fails with its error, or
\* sends the finish request and goes on to the guest call of
\* adi.end_provisioning
ProvisionFinishRequest(finish_response) ==
    /\ Ready
    /\ prov.pc = "start_provisioning"
    /\ adi.call = NoCall
    /\ result.op = "adi"
    /\ IF result.err # "none"
       THEN /\ prov' = [prov EXCEPT !.pc = "idle", !.log = Closed(@, result.err)]
            /\ result' = ProvisionResult(result.err, result.ret)
            /\ UNCHANGED <<adi, panicked, uc, fs, emu>>
       ELSE \E fields \in {FinishFields(finish_response)} :
            \E log1 \in {Append(Closed(prov.log, "none"),
                                [step |-> "finish_post", url |-> prov.finish_url,
                                 cpim_b64 |-> Base64Encode(result.value.cpim),
                                 err |-> fields.err])} :
                IF fields.err # "none"
                THEN /\ prov' = [prov EXCEPT !.pc = "idle", !.log = log1]
                     /\ result' = ProvisionResult(fields.err, <<>>)
                     /\ UNCHANGED <<adi, panicked, uc, fs, emu>>
                ELSE /\ prov' = [prov EXCEPT !.pc = "end_provisioning",
                                   !.log = Append(log1,
                                       [step |-> "end_provisioning",
                                        session |-> result.value.session,
                                        ptm |-> fields.value.ptm, tk |-> fields.value.tk,
                                        err |-> "pending"])]
                     /\ AdiStart("end_provisioning",
                                 PrepareCall("end_provisioning", HostWorld, adi.p[1],
                                             EndArg(result.value, fields.value)),
                                 adi)
    /\ UNCHANGED <<overflow_checks, export_state, allocator, alloc_returns>>

\* adi.end_provisioning has returned: provision returns its result
ProvisionReturn ==
    /\ Ready
    /\ prov.pc = "end_provisioning"
    /\ adi.call = NoCall
    /\ result.op = "adi"
    /\ prov' = [prov EXCEPT !.pc = "idle", !.log = Closed(@, result.err)]
    /\ result' = ProvisionResult(result.err, result.ret)
    /\ UNCHANGED <<adi, overflow_checks, export_state, panicked, allocator, alloc_returns, uc, fs, emu>>


---------------------------------------------------------------------------
(* SpecProvision: a host that constructs an Adi, opens a provisioning      *)
(* session and calls provision; the server answers each request with one   *)
(* of a few responses, and the guest behaves as in SpecAdi.                *)

MaxProvisions == 2

URL_START == "https://start"
URL_FINISH == "https://finish"

\* "AQID" (the bytes 1, 2, 3), "AQI" and "AQJ=" (not canonical base64)
TEXT_AQID == <<65, 81, 73, 68>>
TEXT_AQI == <<65, 81, 73>>
TEXT_AQJ_PAD == <<65, 81, 74, 61>>

\* "BA==" (the byte 4) and "BQY=" (the bytes 5, 6)
TEXT_BA_PAD == <<66, 65, 61, 61>>
TEXT_BQY_PAD == <<66, 81, 89, 61>>

Urls(entries) == HttpOk(PDict([urls |-> PDict(entries)]))

Response(entries) == HttpOk(PDict([Response |-> PDict(entries)]))

\* lookups: both URLs, the start URL only, no URL that is a string, an
\* error
Lookups ==
    { Urls([midStartProvisioning |-> PString(URL_START),
            midFinishProvisioning |-> PString(URL_FINISH)]),
      Urls([midStartProvisioning |-> PString(URL_START)]),
      Urls([midStartProvisioning |-> PDict(<<>>)]),
      HttpError }

StartResponses ==
    { Response([spim |-> PString(TEXT_AQID)]),
      Response([spim |-> PString(TEXT_AQI)]),
      Response([spim |-> PString(TEXT_AQJ_PAD)]),
      Response([ptm |-> PString(TEXT_AQID)]),
      HttpGarbage }

FinishResponses ==
    { Response([ptm |-> PString(TEXT_BA_PAD), tk |-> PString(TEXT_BQY_PAD)]),
      Response([ptm |-> PString(TEXT_BA_PAD)]),
      Response([ptm |-> PString(TEXT_BA_PAD), tk |-> PDict(<<>>)]),
      HttpError }

\* what the guest returns in X0: 0, 1 and 2^32
ProvisionReturns == {U64Zero, U64One, <<0, 1, 0, 0>>}

TEST_DSID == <<Limb - 1, Limb - 1, Limb - 1, Limb - 2>>

NextProvision ==
    \/ /\ result.op = "none"
       /\ AdiNew(AdiInit(PATH_LIB, <<>>, <<>>))
       /\ UNCHANGED steps
    \/ \E client_ok \in BOOLEAN : ProvisioningSession_new(client_ok) /\ UNCHANGED steps
    \/ \E lookup \in Lookups, start_response \in StartResponses :
           /\ steps < MaxProvisions
           /\ Provision(TEST_DSID, lookup, start_response)
           /\ steps' = steps + 1
    \/ \E finish_response \in FinishResponses :
           ProvisionFinishRequest(finish_response) /\ UNCHANGED steps
    \/ ProvisionReturn /\ UNCHANGED steps
    \/ /\ adi.call.method = "start_provisioning"
       /\ result.op = "emu_start"
       /\ GuestStores(OutputWrites(adi.call))
    \/ \E value \in ProvisionReturns : GuestReturn(value)
    \/ GuestFault
    \/ EmuReturn
    \/ AdiFinish /\ UNCHANGED steps

SpecProvision == InitVm /\ [][NextProvision]_vars


---------------------------------------------------------------------------
(* Claims about ProvisioningSession::provision (SpecProvision)             *)

\* the steps of a provision call, with or without the URL-bag lookup
ExpectedSteps(looked_up) ==
    (IF looked_up THEN <<"lookup">> ELSE <<>>)
        \o <<"start_post", "start_provisioning", "finish_post", "end_provisioning">>

\* the steps taken so far are the first steps of the order, every step but
\* the last one has succeeded, and provision has returned Ok only with all
\* steps taken and the end_provisioning call returning code 0
ProvisionSteps ==
    prov.pc # "none" =>
        /\ \E looked_up \in BOOLEAN :
               /\ Len(prov.log) <= Len(ExpectedSteps(looked_up))
               /\ \A i \in 1..Len(prov.log) :
                      prov.log[i].step = ExpectedSteps(looked_up)[i]
        /\ \A i \in 1..(Len(prov.log) - 1) : prov.log[i].err = "none"
        /\ adi.call.method = "end_provisioning" =>
               \E i \in 1..Len(prov.log) :
                   prov.log[i].step = "start_provisioning" /\ prov.log[i].err = "none"
        /\ (result.op = "provision" /\ result.err = "none") =>
               /\ Len(prov.log) >= 4
               /\ prov.log[Len(prov.log)].step = "end_provisioning"
               /\ prov.log[Len(prov.log)].err = "none"
               /\ Len(result.ret) = 1
               /\ Code32(result.ret[1]) = 0

\* a provision call looks the URL bag up exactly when it finds the bag
\* empty, passes its dsid to start_provisioning, and calls end_provisioning
\* right after a start_provisioning that succeeded, with the session that
\* call returned and after a finish request carrying the cpim it returned
ProvisionFlow ==
    /\ (prov.pc = "idle" /\ steps' # steps) =>
           /\ (Len(prov'.log) > 0 /\ prov'.log[1].step = "lookup")
                  <=> (DOMAIN prov.url_bag = {})
           /\ emu'.phase = "running" =>
                  /\ prov'.pc = "start_provisioning"
                  /\ uc'.regs.x[0] = TEST_DSID
    /\ (adi'.call.method = "end_provisioning" /\ adi.call.method # "end_provisioning") =>
           /\ result.op = "adi"
           /\ result.method = "start_provisioning"
           /\ result.err = "none"
           /\ uc'.regs.x[0] = U64FromLeBytes(result.value.session \o <<0, 0, 0, 0>>)
           /\ prov'.log[Len(prov'.log) - 1].step = "finish_post"
           /\ Base64Decode(prov'.log[Len(prov'.log) - 1].cpim_b64)
                  = Step("none", result.value.cpim)

\* C15: in provision(dsid) the steps run in this order: URL-bag lookup (only
\* when the bag is empty), start POST, adi.start_provisioning(dsid, spim),
\* finish POST carrying the returned cpim, adi.end_provisioning with the
\* session returned by that start_provisioning; when a step fails no later
\* step runs, so end_provisioning is never called without a successful
\* start_provisioning in the same provision call, and provision returns Ok
\* only after end_provisioning returned 0.
C15_ProvisionOrder == []ProvisionSteps /\ [][ProvisionFlow]_vars

\* a second provision call, with the bag filled by the first one, has
\* returned Ok after its four steps, end_provisioning having been called
\* with session 7
C15_Witness ==
    /\ result.op = "provision"
    /\ result.err = "none"
    /\ steps = 2
    /\ Len(prov.log) = 4
    /\ prov.log[4].step = "end_provisioning"
    /\ prov.log[4].session = <<7, 0, 0, 0>>
    /\ prov.log[3].cpim_b64 = <<65, 81, 73, 61>>


---------------------------------------------------------------------------
(* Claims about symbol resolution                                          *)

\* the reservations the library allocator has handed out
Reservations(u) == u.data.library_allocator.offset[3] \div LIB_RESERVATION_SIZE[3]

\* the image base of the r-th reservation (from 0)
BaseOfReservation(r) == wrapping_add(LIB_ALLOC_BASE, U64MulSmall(LIB_RESERVATION_SIZE, r))

\* the symbols of lib are resolved for ordinal k and image base B
ResolvedFor(lib, k, B) ==
    \A i \in DOMAIN ElfCatalogue[lib.name].dynsyms.at :
        LET sym == ElfCatalogue[lib.name].dynsyms.at[i]
        IN  lib.symbols.at[i].resolved =
                IF sym.undef
                THEN wrapping_add(IMPORT_ADDRESS,
                                  U64FromNat(k * U64ToNat(IMPORT_LIBRARY_STRIDE) + 4 * i))
                ELSE wrapping_add(B, sym.st_value)

\* C19: for a library that ends up at ordinal k of the loaded list with
\* image base B, dynamic symbol index i resolves to IMPORT + k*STRIDE + 4*i
\* when its section index is undefined and to B + st_value otherwise, after
\* any sequence of earlier loads, including loads that failed part-way.
\* (B is the reservation the load has taken: the one after all
\* reservations of earlier loads, failed or not.)
C19_ResolvedAddresses ==
    uc.made =>
        /\ \A k \in 1..Len(uc.data.loaded_libraries) :
               \E r \in (k - 1)..(Reservations(uc) - 1) :
                   ResolvedFor(uc.data.loaded_libraries[k], k - 1, BaseOfReservation(r))
        /\ ( /\ result.op = "load_library"
             /\ result.err = "none"
             /\ Len(uc.data.loaded_libraries) > Len(result.pre.data.loaded_libraries) ) =>
               /\ result.value = U64FromNat(Len(result.pre.data.loaded_libraries))
               /\ uc.data.loaded_libraries[Len(uc.data.loaded_libraries)].name = result.name
               /\ ResolvedFor(uc.data.loaded_libraries[Len(uc.data.loaded_libraries)],
                              Len(result.pre.data.loaded_libraries),
                              BaseOfReservation(Reservations(result.pre)))

\* libstoreservicescore.so has been loaded at ordinal 1 into the third
\* reservation, one earlier load having failed: malloc (index 1) resolves to
\* 0xA1000004 and the entry point to 0x20101000
C19_Witness ==
    /\ result.op = "load_library"
    /\ result.err = "none"
    /\ result.name = LIB_STORESERVICES
    /\ Len(result.pre.data.loaded_libraries) = 1
    /\ Reservations(result.pre) = 2
    /\ Len(uc.data.loaded_libraries) = 2
    /\ uc.data.loaded_libraries[2].symbols.at[1].resolved = <<0, 0, \hA100, 4>>
    /\ uc.data.loaded_libraries[2].symbols.at[31].resolved = <<0, 0, \h2010, \h1000>>


---------------------------------------------------------------------------
(* SpecSymbols: a host that registers and loads libraries as in SpecLoad   *)
(* and looks names up in the libraries it has loaded                       *)

\* the names the host looks up: two that libstoreservicescore.so defines,
\* one that every library only imports, and the empty name
TestSymbols == {NAME_ENTRY, NAME_HELPER, Sym.malloc, <<>>}

\* EmuCore::resolve_symbol_by_name
ResolveSymbolByName(library_index, symbol_name) ==
    /\ Ready
    /\ \E w \in {resolve_symbol_from_loaded_library_by_name(
                     HostWorld, library_index, symbol_name)} :
           result' = [op |-> "resolve_symbol_by_name", library_index |-> library_index,
                      name |-> symbol_name, err |-> w.err, value |-> w.value]
    /\ UNCHANGED <<adi, prov, overflow_checks, export_state, panicked, allocator, alloc_returns, uc, fs,
                   emu, steps>>

NextSymbols ==
    \/ NewVm(TRUE)
    \/ \E i \in 1..Len(LoadOrder) :
           /\ uc.made
           /\ \A j \in 1..(i - 1) : LoadOrder[j] \in uc.data.library_blobs
           /\ RegisterLibraryBlob(LoadOrder[i])
    \/ \E name \in LoadNames : FailedLoads(uc) < MaxFailedLoads /\ LoadLibrary(name)
    \/ \E library_index \in 0..Len(LoadOrder), symbol_name \in TestSymbols :
           ResolveSymbolByName(library_index, symbol_name)

SpecSymbols == InitVm /\ [][NextSymbols]_vars

\* C20: the name-to-address index of a loaded library covers defined
\* symbols only: resolve_symbol_by_name returns base + st_value (the
\* resolved address) of the first defined dynamic symbol with the given
\* name, and fails with symbol-not-found for a name that the library only
\* imports or does not have.
C20_IndexCoversDefinedSymbols ==
    ( /\ result.op = "resolve_symbol_by_name"
      /\ result.library_index < Len(uc.data.loaded_libraries) ) =>
        LET lib == uc.data.loaded_libraries[result.library_index + 1]
            at == ElfCatalogue[lib.name].dynsyms.at
            defined == {i \in DOMAIN at : at[i].st_name = result.name /\ ~at[i].undef}
        IN  IF defined = {} THEN result.err = "SymbolNotFound"
            ELSE /\ result.err = "none"
                 /\ \E i \in defined :
                        /\ \A j \in defined : i <= j
                        /\ result.value = lib.symbols.at[i].resolved


---------------------------------------------------------------------------
(* SpecDl: a host that loads libstoreservicescore.so, in a 64-bit or a     *)
(* wasm32 build, and calls its entry point; the guest calls dlopen, dlsym  *)
(* and dlclose, with handles of its choice or with the handle the call     *)
(* before returned                                                         *)

\* "/lib/libclash.so", "/lib/" and "libe.so"
PATH_LIBCLASH == <<47, 108, 105, 98, 47>> \o LIB_CLASH
PATH_LIB_SLASH == <<47, 108, 105, 98, 47>>

\* the handles the guest passes: 0, 1, 2, 3 and 2^32 + 1
TestHandles == {U64Zero, U64One, U64FromNat(2), U64FromNat(3), <<0, 1, 0, 1>>}

DlCase(name, x0, x1, text) == [name |-> name, x0 |-> x0, x1 |-> x1, text |-> text]

DlCases ==
    { DlCase(Sym.dlopen, STACK_ADDRESS, U64Zero, p) :
          p \in {PATH_LIBCLASH, LIB_STORESERVICES, PATH_LIB_SLASH, LIB_E} }
    \cup { DlCase(Sym.dlsym, h, STACK_ADDRESS, NAME_ENTRY) : h \in TestHandles }
    \cup { DlCase(Sym.dlclose, h, U64Zero, <<>>) : h \in {U64One, U64FromNat(2)} }

\* the import hook has just run the shim called name
DlShim(name) ==
    /\ result.op = "import"
    /\ result.address \in ImportSlots(result.pre, name)

NextDl ==
    \/ NewVm(TRUE)
    \/ NewVmWasm32
    \/ \E name \in {LIB_STORESERVICES, LIB_CLASH} :
           /\ uc.made
           /\ name = LIB_CLASH => LIB_STORESERVICES \in uc.data.library_blobs
           /\ RegisterLibraryBlob(name)
    \/ /\ uc.made
       /\ LIB_CLASH \in uc.data.library_blobs
       /\ uc.data.loaded_libraries = <<>>
       /\ LoadLibrary(LIB_STORESERVICES)
    \/ \E target \in ImportSlots(uc, NAME_ENTRY) :
           /\ result.op = "load_library"
           /\ InvokeCdecl(target, <<>>)
           /\ UNCHANGED steps
    \/ \E c \in DlCases : \E target \in ImportSlots(uc, c.name) :
           /\ steps < MaxGuestCalls
           /\ GuestCall(target, c.x0, c.x1, U64Zero, c.text)
           /\ steps' = steps + 1
    \/ \E name \in {NAME_ENTRY, Sym.malloc} : \E target \in ImportSlots(uc, Sym.dlsym) :
           /\ steps < MaxGuestCalls
           /\ DlShim(Sym.dlopen)
           /\ GuestCall(target, uc.regs.x[0], STACK_ADDRESS, U64Zero, name)
           /\ steps' = steps + 1
    \/ EmuImportHook(TRUE, CHOOSE c \in Clocks : TRUE) /\ UNCHANGED alloc_returns
    \/ GuestReturn(uc.regs.x[0])
    \/ EmuReturn

SpecDl == InitVm /\ [][NextDl]_vars

\* the string the guest has stored for the call
DlText(u) ==
    CHOOSE text \in {PATH_LIBCLASH, LIB_STORESERVICES, PATH_LIB_SLASH, LIB_E, NAME_ENTRY,
                     Sym.malloc, <<>>} :
        BytesAt(u.mem, STACK_ADDRESS, Len(text) + 1) = text \o <<0>>

\* what follows the last '/' of the path
Basename(path) ==
    IF \E i \in 1..Len(path) : path[i] = 47
    THEN LET last == CHOOSE i \in 1..Len(path) :
                         path[i] = 47 /\ \A j \in (i + 1)..Len(path) : path[j] # 47
         IN  [k \in 1..(Len(path) - last) |-> path[last + k]]
    ELSE path

\* the loaded list before the call is the head of the loaded list after it
LoadedListGrows ==
    /\ Len(result.pre.data.loaded_libraries) <= Len(uc.data.loaded_libraries)
    /\ \A k \in 1..Len(result.pre.data.loaded_libraries) :
           uc.data.loaded_libraries[k] = result.pre.data.loaded_libraries[k]

\* C21: dlopen(path) loads the library registered under the text after the
\* last '/' of path and returns its ordinal + 1, never 0; dlsym(h, name)
\* resolves name in the library at ordinal h - 1; dlsym with h = 0 or with
\* h - 1 not a loaded ordinal is a hard error; dlclose never removes a
\* library, so handles stay valid for the VM's lifetime.
C21_DlHandles ==
    /\ (DlShim(Sym.dlopen) /\ result.err = "none") =>
           /\ uc.regs.x[0] # U64Zero
           /\ U64IsSmall(uc.regs.x[0])
           /\ U64ToNat(uc.regs.x[0]) <= Len(uc.data.loaded_libraries)
           /\ uc.data.loaded_libraries[U64ToNat(uc.regs.x[0])].name
                  = Basename(DlText(result.pre))
           /\ LoadedListGrows
    /\ DlShim(Sym.dlsym) =>
           LET h == result.pre.regs.x[0]
               libs == result.pre.data.loaded_libraries
           IN  IF h = U64Zero \/ ~U64IsSmall(h) \/ U64ToNat(h) > Len(libs)
               THEN result.err # "none"
               ELSE IF DlText(result.pre) \in DOMAIN libs[U64ToNat(h)].symbols_by_name
               THEN /\ result.err = "none"
                    /\ uc.regs.x[0] = libs[U64ToNat(h)].symbols_by_name[DlText(result.pre)]
               ELSE result.err # "none"
    /\ DlShim(Sym.dlclose) =>
           /\ result.err = "none"
           /\ uc.data.loaded_libraries = result.pre.data.loaded_libraries
    /\ result.op = "import" => LoadedListGrows


---------------------------------------------------------------------------
(* Loading of images with unusual program headers and relocation entries   *)
(* (SpecImages): the images are registered in order and loaded in any      *)
(* order, in the 64-bit and in the wasm32 build.                           *)

ImageOrder ==
    <<LIB_NONE, LIB_BADRELOC, LIB_SHARED, LIB_STRADDLE, LIB_BADFILE, LIB_BADFIT,
      LIB_SKIPPED, LIB_HUGE, LIB_FAR>>

ImageNames == {ImageOrder[i] : i \in 1..Len(ImageOrder)}

NextImages ==
    \/ NewVm(TRUE)
    \/ NewVmWasm32
    \/ \E i \in 1..Len(ImageOrder) :
           /\ uc.made
           /\ \A j \in 1..(i - 1) : ImageOrder[j] \in uc.data.library_blobs
           /\ RegisterLibraryBlob(ImageOrder[i])
    \/ \E name \in ImageNames :
           /\ uc.made
           /\ Len(uc.data.loaded_libraries) < MaxImages
           /\ FailedLoads(uc) < MaxFailedLoads
           /\ LoadLibrary(name)

SpecImages == InitVm /\ [][NextImages]_vars


---------------------------------------------------------------------------
(* Claims about images (SpecImages)                                        *)

\* the entries of a relocation table that are not of type 0
WithoutNone(relocs) == SelectSeq(relocs, LAMBDA r : r.r_type # 0)

\* load_library has just been called for a registered library that was not
\* loaded yet and whose image parses
LoadedImage ==
    /\ result.op = "load_library"
    /\ result.name \in result.pre.data.library_blobs
    /\ LoadedIndex(result.pre.data, result.name) < 0
    /\ ElfCatalogue[result.name].parses

\* the emulator as the last load_library call found it
BeforeLoad == World(result.pre, fs, TRUE, CHOOSE c \in Clocks : TRUE, overflow_checks)

\* the memory the last load_library call leaves when the entries of type 0
\* are taken out of both relocation tables
MemoryWithoutNone ==
    LET elf == ElfCatalogue[result.name]
        w1 == state_alloc(BeforeLoad, "library_allocator", LIB_RESERVATION_SIZE)
        symbols == SymbolEntries(elf.dynsyms, Len(result.pre.data.loaded_libraries), w1.value)
        w2 == Try(w1, LAMBDA w : LoadSegments(w, elf, w1.value, 1))
        w3 == Try(w2, LAMBDA w :
                  ApplyRelocations(w, w1.value, WithoutNone(elf.dynrelas), symbols, 1))
        w4 == Try(w3, LAMBDA w :
                  ApplyRelocations(w, w1.value, WithoutNone(elf.pltrelocs), symbols, 1))
    IN  [err |-> w4.err, mem |-> w4.uc.mem, mapped |-> w4.uc.mapped]

\* the image has an entry of a type the loader does not support
HasUnsupported(elf) ==
    \E i \in 1..Len(AllRelocations(elf)) :
        AllRelocations(elf)[i].r_type \notin SupportedRelocations \cup {0}

\* C22: an entry of relocation type 0 writes nothing (the call ends, and
\* leaves the memory, as it does without the entries of type 0), and an
\* entry of a type other than 0, ABS64, GLOB_DAT, JUMP_SLOT and RELATIVE
\* makes load_library fail with an error and adds no library
C22_RelocationTypes ==
    LoadedImage =>
        /\ result.err = MemoryWithoutNone.err
        /\ uc.mem = MemoryWithoutNone.mem
        /\ uc.mapped = MemoryWithoutNone.mapped
        /\ (HasUnsupported(ElfCatalogue[result.name]) =>
               /\ result.err \notin {"none", "panic"}
               /\ uc.data.loaded_libraries = result.pre.data.loaded_libraries)

\* libbadreloc.so was refused after libnone.so, with its three entries of
\* type 0, was loaded
C22_Witness ==
    /\ LoadedImage
    /\ result.name = LIB_BADRELOC
    /\ result.err = "UnsupportedRelocation"
    /\ \E i \in 1..Len(uc.data.loaded_libraries) :
           uc.data.loaded_libraries[i].name = LIB_NONE


\* header ph is one the loader has to load
Loadable(ph) == ph.p_type = PT_LOAD /\ ph.p_memsz # U64Zero

\* the file slice of header ph lies inside the image
SliceInside(elf, ph) ==
    /\ ~AddOverflows(ph.p_offset, ph.p_filesz)
    /\ U64Le(wrapping_add(ph.p_offset, ph.p_filesz), U64FromNat(Len(elf.data)))

\* some relocation entry of the image writes the byte at image offset v
Relocated(elf, v) ==
    \E i \in 1..Len(AllRelocations(elf)) :
        /\ AllRelocations(elf)[i].r_type # 0
        /\ RangesOverlap(AllRelocations(elf)[i].r_offset, U64FromNat(8), v, U64One)

\* the byte of the segment of header ph at offset k from its start
SegmentByte(elf, ph, k) ==
    IF k < U64ToNat(ph.p_filesz) THEN elf.data[U64ToNat(ph.p_offset) + k + 1] ELSE 0

\* two loadable headers of the image touch the same page
TouchSamePage(elf) ==
    \E i, j \in 1..Len(elf.program_headers) :
        LET p == elf.program_headers[i]
            q == elf.program_headers[j]
        IN  /\ i < j
            /\ Loadable(p) /\ Loadable(q)
            /\ U64IsSmall(p.p_vaddr) /\ U64IsSmall(p.p_memsz)
            /\ U64IsSmall(q.p_vaddr) /\ U64IsSmall(q.p_memsz)
            /\ (U64ToNat(q.p_vaddr) \div PAGE_SIZE)
                   <= ((U64ToNat(p.p_vaddr) + U64ToNat(p.p_memsz) - 1) \div PAGE_SIZE)
            /\ (U64ToNat(p.p_vaddr) \div PAGE_SIZE)
                   <= ((U64ToNat(q.p_vaddr) + U64ToNat(q.p_memsz) - 1) \div PAGE_SIZE)

\* every loadable header of the image has its file slice inside the image
\* and not longer than the segment, and its relocation types are supported
SoundImage(elf) ==
    /\ elf.parses
    /\ ~HasUnsupported(elf)
    /\ \A i \in 1..Len(elf.program_headers) :
           LET ph == elf.program_headers[i]
           IN  Loadable(ph) =>
                   /\ SliceInside(elf, ph)
                   /\ U64IsSmall(ph.p_memsz)
                   /\ U64Le(ph.p_filesz, ph.p_memsz)

\* C24: after a successful load every PT_LOAD segment with non-zero memsz
\* holds its file bytes at [base + vaddr, base + vaddr + filesz) and zeros
\* from there to base + vaddr + memsz (relocated words aside), and a sound
\* image with two segments in the same page loads
C24_SegmentContents ==
    /\ FreshLoad /\ SoundImage(ElfCatalogue[result.name]) =>
           LET elf == ElfCatalogue[result.name]
           IN  \A i \in 1..Len(elf.program_headers) :
                   LET ph == elf.program_headers[i]
                   IN  Loadable(ph) =>
                           \A k \in 0..(U64ToNat(ph.p_memsz) - 1) :
                               LET v == wrapping_add(ph.p_vaddr, U64FromNat(k))
                               IN  \/ Relocated(elf, v)
                                   \/ ByteAt(uc.mem, wrapping_add(FreshBase, v))
                                          = SegmentByte(elf, ph, k)
    /\ LoadedImage /\ SoundImage(ElfCatalogue[result.name])
           /\ TouchSamePage(ElfCatalogue[result.name]) => result.err = "none"


\* the length of the pages the segment of header ph spans
MappedLength(ph) ==
    ((U64ToNat(ph.p_vaddr) + U64ToNat(ph.p_memsz) + PAGE_SIZE - 1) \div PAGE_SIZE) * PAGE_SIZE
        - (U64ToNat(ph.p_vaddr) \div PAGE_SIZE) * PAGE_SIZE

\* the file bytes of header ph, put at its address, end behind its pages
DoesNotFit(ph) ==
    /\ U64IsSmall(ph.p_vaddr) /\ U64IsSmall(ph.p_memsz) /\ U64IsSmall(ph.p_filesz)
    /\ U64ToNat(ph.p_filesz) > 0
    /\ (U64ToNat(ph.p_vaddr) % PAGE_SIZE) + U64ToNat(ph.p_filesz) > MappedLength(ph)

\* the image has a loadable header with a file slice outside the image or
\* longer than its pages
HasInvalidRange(elf) ==
    \E i \in 1..Len(elf.program_headers) :
        /\ Loadable(elf.program_headers[i])
        /\ (~SliceInside(elf, elf.program_headers[i]) \/ DoesNotFit(elf.program_headers[i]))

\* the outcome of the last load_library call when the headers that are not
\* PT_LOAD or have memsz 0 are taken out of the image
OutcomeWithoutSkipped ==
    LET elf == ElfCatalogue[result.name]
        kept == [elf EXCEPT !.program_headers = SelectSeq(@, Loadable)]
        w1 == state_alloc(BeforeLoad, "library_allocator", LIB_RESERVATION_SIZE)
        symbols == SymbolEntries(elf.dynsyms, Len(result.pre.data.loaded_libraries), w1.value)
        w2 == Try(w1, LAMBDA w : LoadSegments(w, kept, w1.value, 1))
        w3 == Try(w2, LAMBDA w : ApplyRelocations(w, w1.value, elf.dynrelas, symbols, 1))
        w4 == Try(w3, LAMBDA w : ApplyRelocations(w, w1.value, elf.pltrelocs, symbols, 1))
    IN  [err |-> w4.err, mem |-> w4.uc.mem, mapped |-> w4.uc.mapped]

\* C25: a PT_LOAD header with non-zero memsz whose file slice is not inside
\* the image, or whose file bytes do not fit its pages, makes load_library
\* fail with InvalidElfRange and add no library; headers that are not
\* PT_LOAD or have memsz 0 change nothing (the call ends as without them)
C25_InvalidRanges ==
    LoadedImage =>
        /\ (HasInvalidRange(ElfCatalogue[result.name]) =>
               /\ result.err = "InvalidElfRange"
               /\ uc.data.loaded_libraries = result.pre.data.loaded_libraries)
        /\ result.err = OutcomeWithoutSkipped.err
        /\ uc.mem = OutcomeWithoutSkipped.mem
        /\ uc.mapped = OutcomeWithoutSkipped.mapped


---------------------------------------------------------------------------
(* SpecMalloc: a host that loads libstoreservicescore.so and calls its     *)
(* entry point; the guest calls malloc with sizes of its choice and free   *)
(* with addresses malloc returned.  alloc_returns logs the request and the *)
(* address of each malloc call that returned.                              *)

MaxMallocs == 3

\* 0, 1, 4096, 4097, 8 MiB, 16 MiB, 16 MiB + 1, 2^32, 2^64 - 4096,
\* 2^64 - 4095 and 2^64 - 1
MallocSizes ==
    { U64Zero, U64One, <<0, 0, 0, \h1000>>, <<0, 0, 0, \h1001>>, <<0, 0, \h0080, 0>>,
      <<0, 0, \h0100, 0>>, <<0, 0, \h0100, 1>>, <<0, 1, 0, 0>>,
      <<\hFFFF, \hFFFF, \hFFFF, \hF000>>, <<\hFFFF, \hFFFF, \hFFFF, \hF001>>, U64Max }

NextMalloc ==
    \/ NewVm(TRUE)
    \/ uc.made /\ RegisterLibraryBlob(LIB_STORESERVICES)
    \/ /\ uc.made
       /\ uc.data.loaded_libraries = <<>>
       /\ LoadLibrary(LIB_STORESERVICES)
    \/ \E target \in ImportSlots(uc, NAME_ENTRY) :
           /\ result.op = "load_library"
           /\ InvokeCdecl(target, <<>>)
           /\ UNCHANGED steps
    \/ \E n \in MallocSizes : \E target \in ImportSlots(uc, Sym.malloc) :
           /\ steps < MaxMallocs
           /\ GuestCall(target, n, U64Zero, U64Zero, <<>>)
           /\ steps' = steps + 1
    \/ \E i \in 1..Len(alloc_returns) : \E target \in ImportSlots(uc, Sym.free) :
           /\ GuestCall(target, alloc_returns[i].address, U64Zero, U64Zero, <<>>)
           /\ result.op = "import"
           /\ UNCHANGED steps
    \/ /\ EmuImportHook(TRUE, CHOOSE c \in Clocks : TRUE)
       /\ alloc_returns' =
              IF result'.err = "none" /\ uc.regs.pc \in ImportSlots(uc, Sym.malloc)
              THEN Append(alloc_returns,
                          [request |-> uc.regs.x[0], address |-> uc'.regs.x[0]])
              ELSE alloc_returns
    \/ GuestReturn(uc.regs.x[0])
    \/ EmuReturn

SpecMalloc == InitVm /\ [][NextMalloc]_vars

\* the import hook has just run the malloc shim
MallocShim ==
    /\ result.op = "import"
    /\ result.address \in ImportSlots(result.pre, Sym.malloc)

MALLOC_END == wrapping_add(MALLOC_ADDRESS, MALLOC_SIZE)

\* a request of n bytes fits behind the offset of the arena
Fits(offset, n) ==
    /\ U64Le(n, MALLOC_SIZE)
    /\ U64Le(wrapping_add(offset, PageCeil(U64MaxOf(n, U64One))), MALLOC_SIZE)

\* C23: every address malloc returns lies in the arena [0x6000_0000,
\* 0x6100_0000), the blocks [addr, addr + n) of distinct calls do not
\* overlap, whatever was freed in between, and a request that does not fit
\* ends the call with the OOM error
C23_MallocBlocks ==
    /\ \A i \in 1..Len(alloc_returns) :
           /\ U64Le(MALLOC_ADDRESS, alloc_returns[i].address)
           /\ U64Lt(alloc_returns[i].address, MALLOC_END)
    /\ \A i, j \in 1..Len(alloc_returns) :
           i < j => ~RangesOverlap(alloc_returns[i].address, alloc_returns[i].request,
                                   alloc_returns[j].address, alloc_returns[j].request)
    /\ MallocShim =>
           IF Fits(result.pre.data.malloc_allocator.offset, result.pre.regs.x[0])
           THEN result.err = "none"
           ELSE result.err = "AllocatorOom"


---------------------------------------------------------------------------
(* SpecOpen: a host that loads libstoreservicescore.so and calls its entry *)
(* point; the guest opens "./anisette/adi.pb" with flags of its choice and *)
(* writes to descriptor 0; host operations succeed or fail                 *)

\* the flags values the guest passes to open; 512 is O_TRUNC
OpenFlagCases ==
    { U64FromNat(f) :
          f \in { O_NOFOLLOW, O_NOFOLLOW + O_CREAT + O_WRONLY, 0, O_WRONLY, O_RDWR, 3,
                  O_CREAT + O_WRONLY, O_NOFOLLOW + O_WRONLY, O_NOFOLLOW + O_RDWR,
                  O_NOFOLLOW + O_CREAT, O_NOFOLLOW + O_CREAT + O_RDWR,
                  O_NOFOLLOW + O_CREAT + O_WRONLY + 512 } }
    \cup { <<0, 1, 0, O_NOFOLLOW>> }

NextOpen ==
    \/ NewVm(TRUE)
    \/ uc.made /\ RegisterLibraryBlob(LIB_STORESERVICES)
    \/ /\ uc.made
       /\ uc.data.loaded_libraries = <<>>
       /\ LoadLibrary(LIB_STORESERVICES)
    \/ \E target \in ImportSlots(uc, NAME_ENTRY) :
           /\ result.op = "load_library"
           /\ InvokeCdecl(target, <<>>)
           /\ UNCHANGED steps
    \/ \E flags \in OpenFlagCases : \E target \in ImportSlots(uc, Sym.open) :
           /\ steps < MaxGuestCalls
           /\ GuestCall(target, STACK_ADDRESS, flags, U64FromNat(384), PATH_ADI_PB)
           /\ steps' = steps + 1
    \/ \E target \in ImportSlots(uc, Sym.write) :
           /\ steps < MaxGuestCalls
           /\ uc.data.file_handles # <<>>
           /\ GuestCall(target, U64Zero, STACK_ADDRESS, U64FromNat(2), TEXT_HI)
           /\ steps' = steps + 1
    \/ \E host_ok \in BOOLEAN :
           /\ EmuImportHook(host_ok, CHOOSE c \in Clocks : TRUE)
           /\ UNCHANGED alloc_returns
    \/ GuestReturn(uc.regs.x[0])
    \/ EmuReturn

SpecOpen == InitVm /\ [][NextOpen]_vars

\* the open shim has just run on "./anisette/adi.pb"
OpenedAdiPb ==
    /\ ShimRan(Sym.open)
    /\ ShimPath.err = "none"
    /\ ShimPath.str = PATH_ADI_PB

\* the open shim appended one File to the descriptor table and returned
\* its index
NewDescriptor ==
    /\ Len(uc.data.file_handles) = Len(result.pre.data.file_handles) + 1
    /\ SubSeq(uc.data.file_handles, 1, Len(result.pre.data.file_handles))
           = result.pre.data.file_handles
    /\ uc.regs.x[0] = U64FromNat(Len(result.pre.data.file_handles))

\* the File the open shim appended
NewFile == uc.data.file_handles[Len(uc.data.file_handles)][1]

---------------------------------------------------------------------------
(* SpecHostIo: a host that loads libstoreservicescore.so, takes the whole  *)
(* temp region with one alloc_temporary call or does not, and calls the    *)
(* entry point; the guest calls the shims that go to the host, whose       *)
(* operations succeed or fail                                              *)

HostIoCases ==
    { FileCase(Sym.open, STACK_ADDRESS, OPEN_FLAGS, U64FromNat(384), PATH_ADI_PB),
      FileCase(Sym.open, STACK_ADDRESS, U64FromNat(O_NOFOLLOW), U64Zero, PATH_ADI_PB),
      FileCase(Sym.mkdir, STACK_ADDRESS, U64FromNat(493), U64Zero, PATH_ANISETTE),
      FileCase(Sym.lstat, STACK_ADDRESS, MALLOC_ADDRESS, U64Zero, PATH_ANISETTE),
      FileCase(Sym.fstat, U64Zero, MALLOC_ADDRESS, U64Zero, <<>>),
      FileCase(Sym.read, U64Zero, MALLOC_ADDRESS, U64FromNat(4), <<>>),
      FileCase(Sym.write, U64Zero, STACK_ADDRESS, U64FromNat(2), TEXT_HI),
      FileCase(Sym.ftruncate, U64Zero, U64One, U64Zero, <<>>) }

NextHostIo ==
    \/ NewVm(TRUE)
    \/ uc.made /\ RegisterLibraryBlob(LIB_STORESERVICES)
    \/ /\ uc.made
       /\ uc.data.loaded_libraries = <<>>
       /\ LoadLibrary(LIB_STORESERVICES)
    \/ result.op = "load_library" /\ AllocTemporary(TEMP_ALLOC_SIZE)
    \/ \E target \in ImportSlots(uc, NAME_ENTRY) :
           /\ result.op \in {"load_library", "alloc_temporary"}
           /\ InvokeCdecl(target, <<>>)
           /\ UNCHANGED steps
    \/ \E c \in HostIoCases : \E target \in ImportSlots(uc, c.name) :
           /\ steps < MaxGuestCalls
           /\ GuestCall(target, c.x0, c.x1, c.x2, c.text)
           /\ steps' = steps + 1
    \/ \E host_ok \in BOOLEAN :
           /\ EmuImportHook(host_ok, CHOOSE c \in Clocks : TRUE)
           /\ UNCHANGED alloc_returns
    \/ GuestReturn(uc.regs.x[0])
    \/ EmuReturn

SpecHostIo == InitVm /\ [][NextHostIo]_vars

\* the shims of the claim, by what they take in X0
HostPathShims == {Sym.open, Sym.mkdir, Sym.lstat}
HostFdShims == {Sym.fstat, Sym.read, Sym.write, Sym.ftruncate}

\* the shim that has just run got as far as its host operation
ReachedHost ==
    \/ /\ ShimRan(Sym.open)
       /\ ShimPath.err = "none"
       /\ ShimPath.str = PATH_ADI_PB
       /\ result.pre.regs.x[1] \in {U64FromNat(O_NOFOLLOW), OPEN_FLAGS}
    \/ ShimRan(Sym.mkdir) /\ ShimPath.err = "none" /\ ShimPath.str = PATH_ANISETTE
    \/ ShimRan(Sym.lstat) /\ ShimPath.err = "none"
    \/ /\ \E name \in HostFdShims : ShimRan(name)
       /\ FdIsOpen(ShimWorld, result.pre.regs.x[0])
       /\ ShimRan(Sym.write) =>
              IsMapped(result.pre.mapped, result.pre.regs.x[1], result.pre.regs.x[2])

\* what the shim that has just run does when its host operation fails
HostFailing ==
    dispatch_import_stub(
        World(result.pre, result.pre_fs, FALSE, CHOOSE c \in Clocks : TRUE, overflow_checks),
        result.address)

\* the shim that has just run found its host operation failing
HostFailed ==
    /\ result.op = "import"
    /\ ReachedHost
    /\ result.err = HostFailing.err
    /\ uc.mem = HostFailing.uc.mem
    /\ uc.regs.x = HostFailing.uc.regs.x
    /\ uc.data = HostFailing.uc.data
    /\ fs = HostFailing.fs

\* the errno cell exists or the temp region has a page left for it
ErrnoCellAvailable ==
    \/ result.pre.data.errno_address # <<>>
    \/ Allocator_alloc(result.pre.data.temp_allocator, U64FromNat(4), FALSE).status = "ok"

\* the shim returned normally with errno ENOENT and X0 = ~0, and the
\* descriptor table is as it was
FailedLocally ==
    /\ result.err = "none"
    /\ emu.phase = "running"
    /\ ErrnoCell(uc) = U32ToLeBytes(ENOENT)
    /\ uc.regs.x[0] = U64Max
    /\ uc.data.file_handles = result.pre.data.file_handles

---------------------------------------------------------------------------
(* SpecInvoke: a host that loads libstoreservicescore.so and calls its     *)
(* entry point several times with 0, 1, 2, 29 or 30 arguments; the guest   *)
(* code moves SP, overwrites LR and X28, calls malloc, and returns a value *)
(* of its choice or faults                                                 *)

MaxInvokeCalls == 2

\* i, i + 1, ..., i + n - 1
ArgList(n, i) == [k \in 1..n |-> U64FromNat(i + k - 1)]

ArgLists ==
    { <<>>, ArgList(1, 7), ArgList(2, 1), ArgList(ARG_REGS_LEN, 100),
      ArgList(ARG_REGS_LEN + 1, 200) }

NextInvoke ==
    \/ NewVm(TRUE)
    \/ uc.made /\ RegisterLibraryBlob(LIB_STORESERVICES)
    \/ /\ uc.made
       /\ uc.data.loaded_libraries = <<>>
       /\ LoadLibrary(LIB_STORESERVICES)
    \/ \E target \in ImportSlots(uc, NAME_ENTRY), args \in ArgLists :
           /\ uc.data.loaded_libraries # <<>>
           /\ steps < MaxInvokeCalls
           /\ InvokeCdecl(target, args)
           /\ steps' = steps + 1
    \/ /\ result.op = "emu_start"
       /\ GuestComputes(STACK_ADDRESS, U64FromNat(4), U64FromNat(9))
    \/ \E target \in ImportSlots(uc, Sym.malloc) :
           /\ result.op = "guest_computes"
           /\ GuestCall(target, U64One, U64Zero, U64Zero, <<>>)
           /\ UNCHANGED steps
    \/ EmuImportHook(TRUE, CHOOSE c \in Clocks : TRUE) /\ UNCHANGED alloc_returns
    \/ GuestReturn(uc.regs.x[0])
    \/ GuestReturn(U64FromNat(5))
    \/ GuestFault
    \/ EmuReturn

SpecInvoke == InitVm /\ [][NextInvoke]_vars

\* C28: invoke_cdecl with k <= 29 arguments has, when execution starts at
\* the target, args[i] in X_i for every i < k, STACK_ADDRESS + STACK_SIZE =
\* 0xF010_0000 in SP and 0xDEAD_0000 in LR, whatever the calls before left
\* there, and every other X register as it was; when it returns Ok, its
\* value is X0 as execution left it
C28_CallRegisters ==
    /\ result.op = "emu_start" =>
           /\ result.nargs <= 29
           /\ \A i \in 0..28 :
                  uc.regs.x[i] = IF i < result.nargs THEN result.args[i + 1]
                                 ELSE emu.pre.regs.x[i]
           /\ uc.regs.sp = <<0, 0, \hF010, 0>>
           /\ uc.regs.lr = <<0, 0, \hDEAD, 0>>
           /\ uc.regs.pc = result.address
           /\ uc.mem = emu.pre.mem
    /\ (result.op = "invoke_cdecl" /\ result.err = "none") =>
           result.value = uc.regs.x[0]

\* a second call with one argument starts with the registers set anew,
\* after the guest code of the first call had moved SP and changed LR, X0
\* and X28
C28_Witness ==
    /\ result.op = "emu_start"
    /\ steps = 2
    /\ result.nargs = 1
    /\ emu.pre.regs.sp = STACK_ADDRESS
    /\ emu.pre.regs.lr # <<0, 0, \hDEAD, 0>>
    /\ emu.pre.regs.x[0] = U64FromNat(5)
    /\ uc.regs.x[0] = U64FromNat(7)
    /\ uc.regs.x[28] = U64FromNat(9)
    /\ uc.regs.sp = <<0, 0, \hF010, 0>>


---------------------------------------------------------------------------
(* SpecTemp: a host that calls alloc_data and alloc_temporary on a fresh   *)
(* VM, in a 64-bit or a wasm32 build, with payloads and lengths around a   *)
(* page and with a length that takes the whole temp region                 *)

MaxTempRanges == 3

\* payloads of 0, 3, 4096 and 4097 bytes
TempPayloads ==
    { <<>>, <<1, 2, 3>>, [i \in 1..PAGE_SIZE |-> i % 251],
      [i \in 1..(PAGE_SIZE + 1) |-> i % 241] }

\* 0, 8, 4097, 256 MiB and 256 MiB less a page
TempLengths ==
    { U64Zero, U64FromNat(8), U64FromNat(PAGE_SIZE + 1),
      TEMP_ALLOC_SIZE, wrapping_sub(TEMP_ALLOC_SIZE, U64FromNat(PAGE_SIZE)) }

\* the ranges mapped in the temp region: one for each call that returned
TempRanges(u) ==
    IF ~u.made THEN {} ELSE {r \in u.mapped : U64Le(TEMP_ALLOC_BASE, r.start)}

NextTemp ==
    \/ NewVm(TRUE)
    \/ NewVmWasm32
    \/ \E data \in TempPayloads :
           Cardinality(TempRanges(uc)) < MaxTempRanges /\ AllocData(data)
    \/ \E length \in TempLengths :
           Cardinality(TempRanges(uc)) < MaxTempRanges /\ AllocTemporary(length)

SpecTemp == InitVm /\ [][NextTemp]_vars

\* alloc_data or alloc_temporary has just returned an address
TempReturned ==
    /\ result.op \in {"alloc_data", "alloc_temporary"}
    /\ result.err = "none"

\* the length asked for: that of the payload, or the length argument
TempRequest ==
    IF result.op = "alloc_data" THEN U64FromNat(Len(result.data)) ELSE result.length

\* page_align(max(len, 1))
TempRangeLength == PageCeil(U64MaxOf(TempRequest, U64One))

\* the byte the call has to leave at offset k of its range
TempByte(k) ==
    IF result.op = "alloc_temporary" THEN 170
    ELSE IF k < Len(result.data) THEN result.data[k + 1]
    ELSE 204

\* the offsets of a range that are looked at: its first three, those
\* around the end of the payload and around the end of its first page, and
\* its last one
TempOffsets ==
    LET n == IF result.op = "alloc_data" THEN Len(result.data) ELSE 0
        near == {0, 1, 2, n - 2, n - 1, n, n + 1, PAGE_SIZE - 1, PAGE_SIZE, PAGE_SIZE + 1}
    IN  {U64FromNat(k) : k \in {j \in near : j >= 0 /\ U64Lt(U64FromNat(j), TempRangeLength)}}
        \cup {wrapping_sub(TempRangeLength, U64One)}

\* C29: alloc_data(bytes) returns the page-aligned address of a range of
\* page_align(max(len, 1)) bytes that was not mapped before and is mapped
\* now, with the payload in its first len bytes and 0xCC in the others;
\* alloc_temporary(n) returns such a range with 0xAA in every byte; the
\* range overlaps nothing mapped before, ranges of earlier calls among it,
\* and the call leaves the earlier writes to memory as they were
C29_TempRanges ==
    TempReturned =>
        /\ result.value[4] % PAGE_SIZE = 0
        /\ \A r \in result.pre.mapped :
               ~RangesOverlap(r.start, r.len, result.value, TempRangeLength)
        /\ IsMapped(uc.mapped, result.value, TempRangeLength)
        /\ \A off \in TempOffsets :
               ByteAt(uc.mem, wrapping_add(result.value, off))
                   = TempByte(IF U64IsSmall(off) THEN U64ToNat(off) ELSE PAGE_SIZE + 1)
        /\ Len(uc.mem) = Len(result.pre.mem) + 1
        /\ SubSeq(uc.mem, 1, Len(result.pre.mem)) = result.pre.mem
        /\ result.pre.mapped \subseteq uc.mapped

\* alloc_data has stored a payload of 4097 bytes in two pages behind a
\* range that alloc_temporary returned
C29_Witness ==
    /\ TempReturned
    /\ result.op = "alloc_data"
    /\ Len(result.data) = PAGE_SIZE + 1
    /\ result.value = wrapping_add(TEMP_ALLOC_BASE, U64FromNat(PAGE_SIZE))
    /\ ByteAt(uc.mem, TEMP_ALLOC_BASE) = 170
    /\ ByteAt(uc.mem, wrapping_add(result.value, U64FromNat(PAGE_SIZE + 1))) = 204

\* C30 as stated: the first alloc_data or alloc_temporary on a fresh VM
\* returns 0x0000_0080_0000_0000, and every address they return lies in
\* [0x0000_0080_0000_0000, 0x0000_0080_0000_0000 + 256 MiB)
C30_TempBaseAsStated ==
    TempReturned =>
        /\ result.pre.data.temp_allocator.offset = U64Zero =>
               result.value = <<0, \h0080, 0, 0>>
        /\ U64Le(<<0, \h0080, 0, 0>>, result.value)
        /\ U64Lt(result.value, <<0, \h0080, \h1000, 0>>)

\* C30, amended: the first alloc_data or alloc_temporary on a fresh VM
\* returns the temp-allocator base 0x0000_0008_0000_0000, and every
\* address they return lies in [0x0000_0008_0000_0000,
\* 0x0000_0008_0000_0000 + 256 MiB)
C30_TempBase ==
    TempReturned =>
        /\ result.pre.data.temp_allocator.offset = U64Zero =>
               result.value = <<0, \h0008, 0, 0>>
        /\ U64Le(<<0, \h0008, 0, 0>>, result.value)
        /\ U64Lt(result.value, <<0, \h0008, \h1000, 0>>)

\* the last page of the temp region has been returned
C30_Witness ==
    /\ TempReturned
    /\ result.value = <<0, \h0008, \h0FFF, \hF000>>
    /\ result.pre.data.temp_allocator.offset # U64Zero

---------------------------------------------------------------------------
(* SpecStrncpy: a host that loads libstoreservicescore.so and calls its    *)
(* entry point; the guest stores strings in the stack region and a pattern *)
(* in the malloc arena, and calls strncpy                                  *)

MaxStrncpyCalls == 2

\* the last three bytes of the stack region: 0xF00F_FFFD
STACK_TAIL == <<0, 0, \hF00F, \hFFFD>>

\* what the guest stores: "hi" and its NUL in the last three bytes of the
\* stack region, eight bytes 0xEE at the bottom of the malloc arena
StrncpyStores ==
    << [address |-> STACK_TAIL, bytes |-> TEXT_HI \o <<0>>],
       [address |-> MALLOC_ADDRESS, bytes |-> <<238, 238, 238, 238, 238, 238, 238, 238>>] >>

\* the lengths of the calls: 0, 1, 2, 3, 5, 8 and 2^32 + 2
StrncpyLengths ==
    {U64FromNat(k) : k \in {0, 1, 2, 3, 5, 8}} \cup {<<0, 1, 0, 2>>}

NextStrncpy ==
    \/ NewVm(TRUE)
    \/ NewVmWasm32
    \/ uc.made /\ RegisterLibraryBlob(LIB_STORESERVICES)
    \/ /\ uc.made
       /\ uc.data.loaded_libraries = <<>>
       /\ LoadLibrary(LIB_STORESERVICES)
    \/ \E target \in ImportSlots(uc, NAME_ENTRY) :
           /\ result.op = "load_library"
           /\ InvokeCdecl(target, <<>>)
           /\ UNCHANGED steps
    \/ result.op = "emu_start" /\ GuestStores(StrncpyStores)
    \/ \E dst \in {MALLOC_ADDRESS, wrapping_add(STACK_ADDRESS, U64One)} :
       \E src \in {STACK_ADDRESS, STACK_TAIL} :
       \E n \in StrncpyLengths :
       \E target \in ImportSlots(uc, Sym.strncpy) :
           /\ steps < MaxStrncpyCalls
           /\ GuestCall(target, dst, src, n, TEXT_HI)
           /\ steps' = steps + 1
    \/ /\ EmuImportHook(TRUE, CHOOSE c \in Clocks : TRUE)
       /\ UNCHANGED alloc_returns
    \/ GuestReturn(uc.regs.x[0])
    \/ EmuReturn

SpecStrncpy == InitVm /\ [][NextStrncpy]_vars

\* the import hook has just run the strncpy shim
StrncpyShim ==
    /\ result.op = "import"
    /\ result.address \in ImportSlots(result.pre, Sym.strncpy)

\* the number of bytes of the source that strncpy(dst, src, n) copies: those
\* before the first NUL among the first n bytes, or n
StrncpyCopied ==
    ZeroPosition(result.pre.mem, result.pre.regs.x[1], 0, U64ToNat(result.pre.regs.x[2]))

\* the number of bytes of the source that strncpy has to read: the copied
\* ones and the NUL that ends them, if there is one
StrncpyNeeded ==
    IF StrncpyCopied < U64ToNat(result.pre.regs.x[2]) THEN StrncpyCopied + 1
    ELSE StrncpyCopied

\* byte k (0-based) of the n bytes at dst is byte k of the source if it
\* lies before the NUL, and zero behind
StrncpyWrote ==
    \A k \in 0..(U64ToNat(result.pre.regs.x[2]) - 1) :
        ByteAt(uc.mem, wrapping_add(result.pre.regs.x[0], U64FromNat(k)))
            = IF k < StrncpyCopied
              THEN ByteAt(result.pre.mem, wrapping_add(result.pre.regs.x[1], U64FromNat(k)))
              ELSE 0

\* C31: strncpy(dst, src, n), with the n bytes at dst mapped and the bytes
\* of src up to its first NUL within the first n bytes (all n if there is
\* none) mapped, succeeds, writes at dst the bytes of src before that NUL
\* followed by zero bytes, n bytes in all, and returns dst in X0
C31_Strncpy ==
    ( /\ StrncpyShim
      /\ U64IsSmall(result.pre.regs.x[2])
      /\ IsMapped(result.pre.mapped, result.pre.regs.x[0], result.pre.regs.x[2])
      /\ IsMapped(result.pre.mapped, result.pre.regs.x[1], U64FromNat(StrncpyNeeded)) )
    => /\ result.err = "none"
       /\ uc.regs.x[0] = result.pre.regs.x[0]
       /\ StrncpyWrote

---------------------------------------------------------------------------
(* SpecCtor: a host that calls Adi::new with a provisioning path or none   *)
(* and an identifier, an empty one or none; the guest code behind each     *)
(* entry point returns a value of its choice or faults                     *)

\* provisioning path: none, "" or "./anisette"; identifier: none, "" or
\* "id"
CtorInits ==
    { AdiInit(PATH_LIB, path, identifier) :
        path \in {<<>>, << <<>> >>, <<PATH_ANISETTE>>},
        identifier \in {<<>>, << <<>> >>, <<TEXT_ID>>} }

NextCtor ==
    \/ \E init \in CtorInits : result.op = "none" /\ AdiNew(init) /\ UNCHANGED steps
    \/ \E value \in TestReturns : GuestReturn(value)
    \/ GuestFault
    \/ EmuReturn
    \/ AdiFinish /\ UNCHANGED steps

SpecCtor == InitVm /\ [][NextCtor]_vars

\* both blobs are registered, libstoreservicescore.so is loaded and p holds
\* the addresses of the seven entry points in it
CtorPrepared(u, a) ==
    /\ u.made
    /\ {LIB_STORESERVICES, LIB_COREADI} \subseteq u.data.library_blobs
    /\ LoadedIndex(u.data, LIB_STORESERVICES) = 0
    /\ a.p # <<>>
    /\ DOMAIN a.p[1] = DOMAIN EntryPointOf
    /\ \A m \in DOMAIN EntryPointOf :
           /\ EntryPointOf[m] \in DOMAIN u.data.loaded_libraries[1].symbols_by_name
           /\ a.p[1][m] = u.data.loaded_libraries[1].symbols_by_name[EntryPointOf[m]]

\* the AdiInit asks for set_provisioning_path, for a set_identifier call
PathGiven(init) == init.provisioning_path # <<>>
IdentifierGiven(init) == init.identifier # <<>> /\ init.identifier[1] # <<>>

\* the guest calls Adi::new(init) has still to make after the call `last`
CallsLeft(last, init) ==
    SelectSeq(<<"load_library_with_path", "set_provisioning_path", "set_identifier">>,
              LAMBDA m :
                  /\ \/ m = "set_provisioning_path" /\ PathGiven(init)
                     \/ m = "set_identifier" /\ IdentifierGiven(init)
                     \/ m = "load_library_with_path"
                  /\ \/ last = "none"
                     \/ last = "load_library_with_path" /\ m # "load_library_with_path"
                     \/ last = "set_provisioning_path" /\ m = "set_identifier")

\* the guest call Adi::new was waiting for has come back and the step
\* succeeded
CtorStepSucceeded ==
    /\ result.op = "invoke_cdecl"
    /\ result.err = "none"
    /\ Code32(result.value) = 0

\* Adi::new starts a guest call in this step
CtorCalls == emu.phase # "running" /\ emu'.phase = "running" /\ adi'.ctor

\* C32: every guest call of Adi::new is made with both blobs registered,
\* libstoreservicescore.so loaded and the seven entry points resolved; the
\* calls come in the order load_library_with_path, set_provisioning_path
\* (if a path is given), set_identifier (if a non-empty identifier is
\* given), each after the one before has succeeded; Adi::new returns the
\* Adi after the last of them has succeeded, and after a step has failed it
\* makes no further call and returns an error and no Adi
C32_CtorOrderStep ==
    /\ CtorCalls =>
           /\ CtorPrepared(uc', adi')
           /\ adi.ctor => CtorStepSucceeded
           /\ CallsLeft(adi.call.method, adi'.init[1]) # <<>>
           /\ adi'.call.method = Head(CallsLeft(adi.call.method, adi'.init[1]))
           /\ emu'.address = adi'.p[1][adi'.call.method]
    /\ (~adi.made /\ adi'.made) =>
           /\ adi.ctor
           /\ CtorStepSucceeded
           /\ CallsLeft(adi.call.method, adi.init[1]) = <<>>
           /\ result'.op = "adi" /\ result'.method = "new" /\ result'.err = "none"
    /\ (adi.ctor /\ result.op = "invoke_cdecl" /\ ~CtorStepSucceeded) =>
           /\ adi' = NoAdi
           /\ ~uc'.made
           /\ emu'.phase = "idle"
           /\ result'.op = "adi" /\ result'.method = "new" /\ result'.err # "none"

C32_CtorOrder == [][C32_CtorOrderStep]_vars

\* Adi::new has returned the Adi after its three guest calls: one page of
\* the temp region for each of the two paths and the identifier
C32_Witness ==
    /\ result.op = "adi" /\ result.method = "new" /\ result.err = "none"
    /\ adi.made
    /\ adi.init[1].provisioning_path = <<PATH_ANISETTE>>
    /\ adi.init[1].identifier = <<TEXT_ID>>
    /\ uc.data.temp_allocator.offset = U64FromNat(3 * PAGE_SIZE)

---------------------------------------------------------------------------
(* SpecOtp: a host that constructs an Adi and calls start_provisioning     *)
(* with a spim of any size and request_otp; the guest code behind an entry *)
(* point stores results or not, then returns 0 or 1                        *)

MaxOtpCalls == 2

\* the number of pages of the temp region: 65536
TEMP_PAGES == (TEMP_ALLOC_SIZE[3] * Limb) \div PAGE_SIZE

\* spim: empty, 4097 bytes, and so many pages that after Adi::new
\* (1 page) and the 3 pages of start_provisioning 4 pages are left, or 2
SpimSizes ==
    { [spim |-> <<>>, zeros |-> 0],
      [spim |-> <<1, 2, 3>>, zeros |-> PAGE_SIZE - 2],
      [spim |-> <<1, 2, 3>>, zeros |-> (TEMP_PAGES - 8) * PAGE_SIZE - 3],
      [spim |-> <<1, 2, 3>>, zeros |-> (TEMP_PAGES - 6) * PAGE_SIZE - 3] }

OtpArgs ==
    { [Arg(U64FromNat(5), s.spim, <<0, 0, 0, 0>>, <<>>, <<>>, <<>>, <<>>)
          EXCEPT !.spim_zeros = s.zeros] : s \in SpimSizes }

OtpMethods == {"request_otp", "start_provisioning"}

NextOtp ==
    \/ result.op = "none" /\ AdiNew(AdiInit(PATH_LIB, <<>>, <<>>)) /\ UNCHANGED steps
    \/ \E method \in OtpMethods, arg \in OtpArgs :
           /\ steps < MaxOtpCalls
           /\ method = "start_provisioning" \/ arg.spim = <<>>
           /\ AdiCall(method, arg)
           /\ steps' = steps + 1
    \/ /\ adi.call.method \in OtpMethods
       /\ result.op = "emu_start"
       /\ GuestStores(OutputWrites(adi.call))
    \/ \E value \in {U64Zero, U64One} : GuestReturn(value)
    \/ EmuReturn
    \/ AdiFinish /\ UNCHANGED steps

SpecOtp == InitVm /\ [][NextOtp]_vars

TempOffset(u) == u.data.temp_allocator.offset

\* the bytes of the temp region a call of the method takes for its
\* buffers: 4 pages, or 3 pages and the pages of the spim buffer
TempNeeded(method, arg) ==
    IF method = "request_otp" THEN U64FromNat(4 * PAGE_SIZE)
    ELSE wrapping_add(U64FromNat(3 * PAGE_SIZE),
                      PageCeil(U64MaxOf(U64FromNat(Len(arg.spim) + arg.spim_zeros), U64One)))

\* the bytes of the temp region that are left
TempLeft(u) == wrapping_sub(TEMP_ALLOC_SIZE, TempOffset(u))

\* C33: the offset of the temp allocator never decreases while the VM
\* lives; a call of request_otp (start_provisioning) made with 4 pages (3
\* pages and the pages of the spim buffer) left takes exactly these pages
\* before the guest is invoked and nothing is given back when the guest
\* call ends, whatever its outcome; made with fewer pages left, the call
\* fails with the OOM error of the allocator and the guest is not invoked
C33_TempGrowthStep ==
    /\ (uc.made /\ uc'.made) => U64Le(TempOffset(uc), TempOffset(uc'))
    /\ \A method \in OtpMethods, arg \in OtpArgs :
           AdiCall(method, arg) =>
               IF U64Lt(TempLeft(uc), TempNeeded(method, arg))
               THEN /\ result'.op = "adi"
                    /\ result'.method = method
                    /\ result'.err = "AllocatorOom"
                    /\ emu'.phase = "idle"
                    /\ uc'.regs = uc.regs
               ELSE /\ emu'.phase = "running"
                    /\ adi'.call.method = method
                    /\ TempOffset(uc') = wrapping_add(TempOffset(uc), TempNeeded(method, arg))
    /\ (adi.made /\ adi.call.method \in OtpMethods) =>
           /\ uc'.made
           /\ TempOffset(uc') = TempOffset(uc)

C33_TempGrowth == [][C33_TempGrowthStep]_vars

\* request_otp has failed with the OOM error after two of its buffers took
\* the last two pages of the temp region
C33_Witness ==
    /\ result.op = "adi"
    /\ result.method = "request_otp"
    /\ result.err = "AllocatorOom"
    /\ TempOffset(uc) = TEMP_ALLOC_SIZE
    /\ steps = 2

---------------------------------------------------------------------------
(* SpecSlots: a host that registers eleven libraries and loads them in the *)
(* order of registration, libbadreloc.so (whose load fails behind its      *)
(* reservation) after the first or the eighth; once seven reservations are *)
(* made it calls the entry point of the first library, whose code calls    *)
(* dlopen for the library that is next in line                             *)

MaxSlotFailures == 2
MaxSlotDlopens == 2

\* ten libraries that load, and libbadreloc.so
SlotOrder ==
    << LIB_STORESERVICES, LIB_COREADI, LIB_CLASH, LIB_E, LIB_F, LIB_G, LIB_NONE,
       LIB_SKIPPED, LIB_SHARED, LIB_BIG, LIB_BADRELOC >>

\* the library that is next in line: the loaded ones are the first of
\* SlotOrder
NextInLine(u) == SlotOrder[Len(u.data.loaded_libraries) + 1]

\* "/lib/"
PATH_SLASH_LIB == <<47, 108, 105, 98, 47>>

NextSlots ==
    \/ NewVm(TRUE)
    \/ \E i \in 1..Len(SlotOrder) :
           /\ uc.made
           /\ \A j \in 1..(i - 1) : SlotOrder[j] \in uc.data.library_blobs
           /\ RegisterLibraryBlob(SlotOrder[i])
    \/ /\ uc.made
       /\ LIB_BADRELOC \in uc.data.library_blobs
       /\ \/ LoadLibrary(NextInLine(uc))
          \/ /\ FailedLoads(uc) < MaxSlotFailures
             /\ Len(uc.data.loaded_libraries) \in {1, 8}
             /\ LoadLibrary(LIB_BADRELOC)
          \/ /\ Reservations(uc) = 9
             /\ \E name \in {LIB_STORESERVICES, LIB_HUGE} : LoadLibrary(name)
    \/ \E target \in ImportSlots(uc, NAME_ENTRY) :
           /\ result.op = "load_library"
           /\ Reservations(uc) >= 7
           /\ InvokeCdecl(target, <<>>)
           /\ steps' = 0
    \/ \E target \in ImportSlots(uc, Sym.dlopen) :
           /\ steps < MaxSlotDlopens
           /\ GuestCall(target, STACK_ADDRESS, U64Zero, U64Zero,
                        PATH_SLASH_LIB \o NextInLine(uc))
           /\ steps' = steps + 1
    \/ EmuImportHook(TRUE, CHOOSE c \in Clocks : TRUE) /\ UNCHANGED alloc_returns
    \/ GuestReturn(uc.regs.x[0])
    \/ EmuReturn

SpecSlots == InitVm /\ [][NextSlots]_vars

\* load_library or the dlopen shim has just run
LoadCalled ==
    \/ result.op = "load_library"
    \/ result.op = "import" /\ result.address \in ImportSlots(result.pre, Sym.dlopen)

\* the last load_library or dlopen call asked for a library that was not
\* loaded, the image of which is registered and parses
NewLibraryRequested ==
    /\ \A k \in 1..Len(result.pre.data.loaded_libraries) :
           result.pre.data.loaded_libraries[k].name # RequestedName
    /\ RequestedName \in result.pre.data.library_blobs
    /\ ElfCatalogue[RequestedName].parses

\* the import page of the library with ordinal k
ImportPageRegion(k) == [start |-> ImportPage(k), len |-> IMPORT_SIZE]

\* C34: at most 9 reservations of the library allocator have succeeded;
\* every loaded library has an ordinal below IMPORT_LIBRARY_COUNT, the
\* import page of which new_arm64 mapped and hooked; and a load of a new
\* library (registered, with an image that parses) made after 9
\* reservations fails with the OOM error of the allocator and loads nothing
C34_LibrarySlots ==
    uc.made =>
        /\ Reservations(uc) <= 9
        /\ Len(uc.data.loaded_libraries) <= Reservations(uc)
        /\ \A k \in 0..(Len(uc.data.loaded_libraries) - 1) :
               /\ k < IMPORT_LIBRARY_COUNT
               /\ ImportPageRegion(k) \in new_arm64.mapped \cap uc.mapped
               /\ ImportPageRegion(k) \in new_arm64.hooks \cap uc.hooks
        /\ (LoadCalled /\ Reservations(result.pre) = 9 /\ NewLibraryRequested) =>
               /\ result.err = "AllocatorOom"
               /\ uc.data.loaded_libraries = result.pre.data.loaded_libraries
               /\ Reservations(uc) = 9

\* nine libraries are loaded and load_library has failed for the tenth
\* with the OOM error
C34_Witness ==
    /\ uc.made
    /\ Len(uc.data.loaded_libraries) = 9
    /\ result.op = "load_library"
    /\ result.name = LIB_BIG
    /\ result.err = "AllocatorOom"

---------------------------------------------------------------------------
(* SpecFailedLoads: a host that registers the libraries of SlotOrder and   *)
(* four more whose load fails, and loads those of SlotOrder in order; with *)
(* one library loaded, the host and (through dlopen) the guest code of     *)
(* that library also ask for the failing ones and for a name that is not   *)
(* registered                                                              *)

MaxLoadFailures == 2
MaxFailureDlopens == 1

\* libraries whose load fails: unsupported relocation, write to unmapped
\* memory, invalid ELF range, symbol index out of range, parse error
FailingOrder == <<LIB_BADRELOC, LIB_STRADDLE, LIB_BADFILE, LIB_BADSYM, LIB_GARBAGE>>

FailedLoadsOrder == SubSeq(SlotOrder, 1, 10) \o FailingOrder

\* the failing libraries and libhuge.so, which is not registered
FailingNames == {FailingOrder[i] : i \in 1..Len(FailingOrder)} \cup {LIB_HUGE}

NextFailedLoads ==
    \/ NewVm(TRUE)
    \/ \E i \in 1..Len(FailedLoadsOrder) :
           /\ uc.made
           /\ \A j \in 1..(i - 1) : FailedLoadsOrder[j] \in uc.data.library_blobs
           /\ RegisterLibraryBlob(FailedLoadsOrder[i])
    \/ /\ uc.made
       /\ LIB_GARBAGE \in uc.data.library_blobs
       /\ \/ LoadLibrary(NextInLine(uc))
          \/ \E name \in FailingNames :
                 /\ FailedLoads(uc) < MaxLoadFailures
                 /\ Len(uc.data.loaded_libraries) = 1
                 /\ LoadLibrary(name)
    \/ \E target \in ImportSlots(uc, NAME_ENTRY) :
           /\ result.op = "load_library"
           /\ Len(uc.data.loaded_libraries) = 1
           /\ InvokeCdecl(target, <<>>)
           /\ steps' = 0
    \/ \E target \in ImportSlots(uc, Sym.dlopen) :
       \E name \in FailingNames \cup {NextInLine(uc)} :
           /\ steps < MaxFailureDlopens
           /\ FailedLoads(uc) < MaxLoadFailures
           /\ GuestCall(target, STACK_ADDRESS, U64Zero, U64Zero, PATH_SLASH_LIB \o name)
           /\ steps' = steps + 1
    \/ EmuImportHook(TRUE, CHOOSE c \in Clocks : TRUE) /\ UNCHANGED alloc_returns
    \/ GuestReturn(uc.regs.x[0])
    \/ EmuReturn

SpecFailedLoads == InitVm /\ [][NextFailedLoads]_vars

\* the last load_library or dlopen call failed
LoadFailed == LoadCalled /\ result.err # "none"

\* the last load_library or dlopen call loaded a library
LoadedNew ==
    /\ LoadReturned \/ DlopenReturned
    /\ \A k \in 1..Len(result.pre.data.loaded_libraries) :
           result.pre.data.loaded_libraries[k].name # RequestedName

\* a step from a failed call to a call that made the list longer
LoadAfterFailure ==
    /\ LoadFailed
    /\ LoadReturned' \/ DlopenReturned'
    /\ Len(uc'.data.loaded_libraries) > Len(uc.data.loaded_libraries)

C35_FailedLoadStep ==
    /\ LoadFailed' => uc'.data.loaded_libraries = uc.data.loaded_libraries
    /\ (uc.made /\ uc'.made /\ ~LoadCalled') =>
           uc'.data.loaded_libraries = uc.data.loaded_libraries
    /\ LoadAfterFailure =>
           ReturnedOrdinal' = U64FromNat(Len(result.pre.data.loaded_libraries))

C35_LoadedNewState ==
    LoadedNew =>
        LET before == result.pre.data.loaded_libraries
            after == uc.data.loaded_libraries
        IN  /\ ReturnedOrdinal = U64FromNat(Len(before))
            /\ after = Append(before, after[Len(after)])
            /\ after[Len(after)].name = RequestedName

\* C35: a load_library or dlopen call that fails leaves the list of loaded
\* libraries as it was, names, ordinals and symbol tables; so does every step
\* that is no load; a call that loads a library appends it and returns the
\* length the list had, and when the call before it had failed, that is the
\* length the list had before the failed call, the ordinal the failed call
\* would have handed out
C35_FailedLoad == [][C35_FailedLoadStep]_vars /\ []C35_LoadedNewState

\* after a load that failed behind its reservation, the next library has
\* been loaded with the ordinal 1, in the third reservation
C35_Witness ==
    /\ LoadedNew
    /\ result.op = "load_library"
    /\ result.value = U64One
    /\ Len(uc.data.loaded_libraries) = 2
    /\ Reservations(uc) = 3

---------------------------------------------------------------------------
(* SpecShimStrings: guest code that calls the shims that read a string,    *)
(* with the string at the bottom of the stack, in the last bytes of the    *)
(* stack region, in the last bytes of the malloc arena, or with a pointer  *)
(* to an import page, which holds 0x1000 bytes without a NUL               *)

MaxShimStringCalls == 1

\* the last three bytes of the malloc arena: 0x60FF_FFFD
MALLOC_TAIL == <<0, 0, \h60FF, \hFFFD>>

\* what the guest stores: "hi" and its NUL in the last three bytes of the
\* stack region and of the malloc arena
ShimStringStores ==
    << [address |-> STACK_TAIL, bytes |-> TEXT_HI \o <<0>>],
       [address |-> MALLOC_TAIL, bytes |-> TEXT_HI \o <<0>>] >>

ShimStringPointers == {STACK_ADDRESS, STACK_TAIL, MALLOC_TAIL, ImportPage(9)}

\* the shims that read a string from X0
StringShims ==
    {Sym.open, Sym.mkdir, Sym.lstat, Sym.chmod, Sym.dlopen, Sym.system_property_get}

NextShimStrings ==
    \/ NewVm(TRUE)
    \/ uc.made /\ RegisterLibraryBlob(LIB_STORESERVICES)
    \/ /\ uc.made
       /\ uc.data.loaded_libraries = <<>>
       /\ LoadLibrary(LIB_STORESERVICES)
    \/ \E target \in ImportSlots(uc, NAME_ENTRY) :
           /\ result.op = "load_library"
           /\ InvokeCdecl(target, <<>>)
           /\ UNCHANGED steps
    \/ result.op = "emu_start" /\ GuestStores(ShimStringStores)
    \/ \E name \in StringShims :
       \E pointer \in ShimStringPointers :
       \E target \in ImportSlots(uc, name) :
           /\ steps < MaxShimStringCalls
           /\ pointer = ImportPage(9) => name = Sym.open
           /\ GuestCall(target, pointer, MALLOC_ADDRESS, U64Zero, TEXT_HI)
           /\ steps' = steps + 1
    \/ \E pointer \in ShimStringPointers :
       \E target \in ImportSlots(uc, Sym.dlsym) :
           /\ steps < MaxShimStringCalls
           /\ GuestCall(target, U64One, pointer, U64Zero, TEXT_HI)
           /\ steps' = steps + 1
    \/ /\ EmuImportHook(TRUE, CHOOSE c \in Clocks : TRUE)
       /\ UNCHANGED alloc_returns
    \/ GuestReturn(uc.regs.x[0])
    \/ EmuReturn

SpecShimStrings == InitVm /\ [][NextShimStrings]_vars

\* the import hook has just run a shim that reads a string
StringShim ==
    /\ result.op = "import"
    /\ \E name \in StringShims \cup {Sym.dlsym} :
           result.address \in ImportSlots(result.pre, name)

\* where the shim was told the string is: X1 for dlsym, X0 for the others
StringPointer ==
    IF result.address \in ImportSlots(result.pre, Sym.dlsym) THEN result.pre.regs.x[1]
    ELSE result.pre.regs.x[0]

\* the number of bytes before the first NUL among the first 0x1000 bytes at
\* the pointer, or 0x1000
StringLength == ZeroPosition(result.pre.mem, StringPointer, 0, PAGE_SIZE)

\* the string and its NUL are shorter than 0x1000 bytes and mapped
StringReadable ==
    /\ StringLength < PAGE_SIZE
    /\ IsMapped(result.pre.mapped, StringPointer, U64FromNat(StringLength + 1))

\* C36: a shim that reads a string reads every NUL-terminated string
\* shorter than 0x1000 bytes that lies in mapped memory: it fails neither
\* with a read error of the emulator nor with UnterminatedCString; it fails
\* with UnterminatedCString only when none of the first 0x1000 bytes is NUL
C36_ShimReadsString ==
    StringShim =>
        /\ StringReadable =>
               result.err \notin {"Unicorn(READ_UNMAPPED)", "UnterminatedCString"}
        /\ result.err = "UnterminatedCString" => StringLength = PAGE_SIZE

\* the same with all 0x1000 bytes behind the pointer mapped: the string is
\* read, and the call fails with UnterminatedCString exactly when none of
\* the 0x1000 bytes is NUL
ShimReadsStringInMappedPage ==
    ( /\ StringShim
      /\ IsMapped(result.pre.mapped, StringPointer, U64FromNat(PAGE_SIZE)) )
    => /\ result.err # "Unicorn(READ_UNMAPPED)"
       /\ result.err = "UnterminatedCString" <=> StringLength = PAGE_SIZE

---------------------------------------------------------------------------
(* The C-ABI wrapper (exports.rs)                                          *)
(* export_state.of[t] is the thread-local STATE of thread t: adi is <<>>   *)
(* (None) or <<[uc, adi]>>, the emulator and the entry points of the       *)
(* installed Adi; last_error is the message, a sequence of its parts, <<>> *)
(* for the empty string.  export_state.call is the operation in flight.    *)
(* While an operation runs, uc and adi hold the Adi it works on.           *)
(* A `*const c_char` argument is [null, bytes]; a pointer with a length is *)
(* [null, len, bytes].                                                     *)

NullStr == [null |-> TRUE, bytes |-> <<>>]
CStr(bytes) == [null |-> FALSE, bytes |-> bytes]

NullBytes(len) == [null |-> TRUE, len |-> len, bytes |-> <<>>]
BytesPtr(bytes) == [null |-> FALSE, len |-> Len(bytes), bytes |-> bytes]

\* what a closure of the wrapper returns: err is <<>> for Ok(value)
ExportOk(value) == [err |-> <<>>, value |-> value]
ExportErr(message) == [err |-> message, value |-> <<>>]

\* `let x = v?; F(x)` on these results
ExportTry(v, F(_)) == CHOOSE y \in {IF x.err # <<>> THEN x ELSE F(x.value) : x \in {v}} : TRUE

\* CStr::to_str on bytes that are ASCII or not part of any well-formed
\* sequence
IsUtf8(bytes) == \A i \in 1..Len(bytes) : bytes[i] < 128

\* exports::c_string
c_string(ptr) ==
    IF ptr.null THEN ExportErr(<<"null C string pointer">>)
    ELSE IF ~IsUtf8(ptr.bytes) THEN ExportErr(<<"invalid utf-8 string: ", "Utf8Error">>)
    ELSE ExportOk(ptr.bytes)

\* exports::optional_c_string: <<>> for None, <<s>> for Some(s)
optional_c_string(ptr) ==
    IF ptr.null THEN ExportOk(<<>>)
    ELSE ExportTry(c_string(ptr), LAMBDA s : ExportOk(<<s>>))

\* exports::input_bytes
input_bytes(ptr) ==
    IF ptr.len = 0 THEN ExportOk(<<>>)
    ELSE IF ptr.null THEN ExportErr(<<"null bytes pointer with non-zero length">>)
    ELSE ExportOk(ptr.bytes)

\* the bytes of the two library images, and bytes that are no ELF image
IMAGE_STORESERVICES == <<127, 69, 76, 70, 1>>
IMAGE_COREADI == <<127, 69, 76, 70, 2>>
IMAGE_GARBAGE == <<0, 1>>

\* "./ss.so", "./ca.so" and "./anisette/f"
PATH_SS_FILE == <<46, 47, 115, 115, 46, 115, 111>>
PATH_CA_FILE == <<46, 47, 99, 97, 46, 115, 111>>
PATH_F == PATH_ANISETTE \o <<47, 102>>

\* the host file system with the two library images in "."
ExportFs ==
    [HostFs(TRUE) EXCEPT !.files =
        (PATH_SS_FILE :> IMAGE_STORESERVICES) @@ (PATH_CA_FILE :> IMAGE_COREADI) @@ @]

\* fs::read
fs_read(f, host_ok, path) ==
    IF host_ok /\ path \in DOMAIN f.files THEN ExportOk(f.files[path])
    ELSE ExportErr(<<"Io">>)

\* fs::write of a path that is empty, a bare name or has a parent
fs_write(w, path, data) ==
    IF \/ ~w.host_ok
       \/ path = <<>>
       \/ path \in w.fs.dirs
       \/ (\E i \in 1..Len(path) : path[i] = SLASH) /\ Parent(path) \notin w.fs.dirs
    THEN Fail(w, "Io")
    ELSE [w EXCEPT !.fs.files = (path :> data) @@ @]

\* Path::parent is Some(parent) and the parent is not empty
HasParent(path) == (\E i \in 1..Len(path) : path[i] = SLASH) /\ Parent(path) # <<>>

\* an exported operation with its arguments: the C strings, the byte
\* buffers and the number (dsid, session or populate_from_storage)
ExportCallOf(name, strs, blobs, num) ==
    [name |-> name, strs |-> strs, blobs |-> blobs, num |-> num]

InitOps == {"init_from_files", "init_from_blobs"}

\* the operations that go through with_adi_mut
AdiOps ==
    {"set_identifier", "set_provisioning_path", "is_machine_provisioned",
     "start_provisioning", "end_provisioning", "request_otp"}

FsOps == {"fs_write_file", "fs_read_file", "idbfs_sync"}

\* the arguments of an operation as the wrapper decodes them before it
\* does anything else; for the init operations [storeservicescore, coreadi,
\* init], for the methods of Adi their Arg, for the file operations [path,
\* data]
DecodeInit(c, f, host_ok) ==
    LET at == IF c.name = "init_from_files" THEN 2 ELSE 0
        parts(storeservicescore, coreadi) ==
            ExportTry(c_string(c.strs[at + 1]), LAMBDA library_path :
            ExportTry(optional_c_string(c.strs[at + 2]), LAMBDA provisioning_path :
            ExportTry(optional_c_string(c.strs[at + 3]), LAMBDA identifier :
            ExportOk([storeservicescore |-> storeservicescore, coreadi |-> coreadi,
                      init |-> AdiInit(library_path, provisioning_path, identifier)]))))
    IN  IF c.name = "init_from_blobs"
        THEN ExportTry(input_bytes(c.blobs[1]), LAMBDA storeservicescore :
             ExportTry(input_bytes(c.blobs[2]), LAMBDA coreadi :
             parts(storeservicescore, coreadi)))
        ELSE ExportTry(c_string(c.strs[1]), LAMBDA storeservices_path :
             ExportTry(c_string(c.strs[2]), LAMBDA coreadi_path :
             ExportTry(parts(<<>>, <<>>), LAMBDA p :
             ExportTry(IF fs_read(f, host_ok, storeservices_path).err = <<>>
                       THEN fs_read(f, host_ok, storeservices_path)
                       ELSE ExportErr(<<"failed to read storeservices core '",
                                        storeservices_path, "': ", "Io">>),
                       LAMBDA storeservicescore :
             ExportTry(IF fs_read(f, host_ok, coreadi_path).err = <<>>
                       THEN fs_read(f, host_ok, coreadi_path)
                       ELSE ExportErr(<<"failed to read coreadi '", coreadi_path,
                                        "': ", "Io">>),
                       LAMBDA coreadi :
             ExportOk([p EXCEPT !.storeservicescore = storeservicescore,
                                !.coreadi = coreadi]))))))

DecodeMethod(c) ==
    LET none == Arg(U64Zero, <<>>, <<0, 0, 0, 0>>, <<>>, <<>>, <<>>, <<>>)
    IN  CASE c.name = "set_identifier" ->
                ExportTry(c_string(c.strs[1]), LAMBDA identifier :
                ExportOk([none EXCEPT !.identifier = identifier]))
          [] c.name = "set_provisioning_path" ->
                ExportTry(c_string(c.strs[1]), LAMBDA path :
                ExportOk([none EXCEPT !.path = path]))
          [] c.name = "start_provisioning" ->
                ExportTry(input_bytes(c.blobs[1]), LAMBDA spim :
                ExportOk([none EXCEPT !.dsid = c.num, !.spim = spim]))
          [] c.name = "end_provisioning" ->
                ExportTry(input_bytes(c.blobs[1]), LAMBDA ptm :
                ExportTry(input_bytes(c.blobs[2]), LAMBDA tk :
                ExportOk([none EXCEPT !.session = c.num, !.ptm = ptm, !.tk = tk])))
          [] OTHER -> ExportOk([none EXCEPT !.dsid = c.num])

\* the text in front of an error of the method, if the wrapper puts one
MethodMessage(name, err) ==
    CASE name = "start_provisioning" -> <<"start_provisioning failed: ", err>>
      [] name = "end_provisioning" -> <<"end_provisioning failed: ", err>>
      [] name = "request_otp" -> <<"request_otp failed: ", err>>
      [] OTHER -> <<err>>

\* Adi::new up to its first guest call with the images the host passed:
\* bytes that are no ELF image fail in load_library_by_name
ExportCore(parts, f, checks) ==
    IF parts.storeservicescore # IMAGE_STORESERVICES
    THEN Fail(World(new_arm64, f, TRUE, CHOOSE c \in Clocks : TRUE, checks), "Elf")
    ELSE Bind(AdiCore(parts.init, checks), LAMBDA w : [w EXCEPT !.fs = f])

\* the match at the end of every exported operation of thread t: the
\* message is stored or cleared and the value or -1 returned; st is the
\* thread's state as the operation left it
ExportReturn(t, c, pre, r, st) ==
    /\ export_state' =
           [of |-> [export_state.of EXCEPT ![t] = [st EXCEPT !.last_error = r.err]],
            call |-> NoExport]
    /\ result' = [op |-> "export", thread |-> t, call |-> c, pre |-> pre,
                  failed |-> r.err # <<>>,
                  ret |-> IF r.err = <<>> THEN r.value ELSE -1]
    /\ uc' = NoVm
    /\ adi' = NoAdi
    /\ emu' = Idle

\* an install_adi that keeps the buffers of the Adi it replaces
install_adi_keeping_buffers(st, instance) == [st EXCEPT !.adi = <<instance>>]

\* exports::install_adi
install_adi(st, instance) ==
    [st EXCEPT !.adi = <<instance>>, !.cpim = <<>>, !.otp = <<>>, !.mid = <<>>,
               !.session = <<0, 0, 0, 0>>]

\* the state of the thread once the method has returned o
AfterMethod(st, name, o) ==
    IF o.err # "none" THEN st
    ELSE IF name = "start_provisioning"
    THEN [st EXCEPT !.cpim = o.value.cpim, !.session = o.value.session]
    ELSE IF name = "request_otp"
    THEN [st EXCEPT !.otp = o.value.otp, !.mid = o.value.machine_id]
    ELSE st

\* an is_machine_provisioned that leaves `out` at -1 for a machine that is
\* not provisioned
MethodValue_out_left_unset(name, o) ==
    IF name = "is_machine_provisioned" THEN (IF o.value THEN 1 ELSE -1) ELSE 0

\* the value an operation returns when its method has returned Ok
MethodValue(name, o) ==
    IF name = "is_machine_provisioned" THEN (IF o.value THEN 1 ELSE 0) ELSE 0

\* what the wrapper makes of the outcome o of a method
MethodReturn(name, o) ==
    IF o.err # "none" THEN ExportErr(MethodMessage(name, o.err))
    ELSE ExportOk(MethodValue(name, o))

\* thread t calls an init operation: the arguments are decoded, the files
\* read, and Adi::new runs up to its first guest call
ExportInit(t, c, host_ok) ==
    /\ c.name \in InitOps
    /\ ~panicked /\ emu.phase = "idle" /\ export_state.call = NoExport
    /\ \E d \in {DecodeInit(c, fs, host_ok)} :
           IF d.err # <<>>
           THEN /\ ExportReturn(t, c, export_state.of, d, export_state.of[t])
                /\ UNCHANGED <<fs, panicked>>
           ELSE \E core \in {ExportCore(d.value, fs, overflow_checks)} :
                \E w \in {Try(core, LAMBDA w1 :
                              PrepareCall("load_library_with_path", w1, w1.value,
                                          CtorArg(d.value.init)))} :
                IF w.err \notin {"none", "panic"}
                THEN /\ ExportReturn(t, c, export_state.of,
                                     ExportErr(<<"ADI init failed: ", w.err>>),
                                     export_state.of[t])
                     /\ UNCHANGED <<fs, panicked>>
                ELSE /\ AdiStart("load_library_with_path", w,
                                 [made |-> FALSE, ctor |-> TRUE, init |-> <<d.value.init>>,
                                  p |-> IF core.err = "none" THEN <<core.value>> ELSE <<>>,
                                  call |-> NoCall])
                     /\ export_state' =
                            [export_state EXCEPT !.call =
                                [name |-> c.name, thread |-> t, call |-> c,
                                 pre |-> export_state.of]]
    /\ UNCHANGED <<prov, overflow_checks, allocator, alloc_returns>>

\* thread t calls an operation that needs the Adi: the arguments are
\* decoded, with_adi_mut looks for the Adi, and the method runs up to its
\* guest call
ExportMethod(t, c) ==
    /\ c.name \in AdiOps
    /\ ~panicked /\ emu.phase = "idle" /\ export_state.call = NoExport
    /\ \E d \in {DecodeMethod(c)}, st \in {export_state.of[t]} :
           IF d.err # <<>>
           THEN /\ ExportReturn(t, c, export_state.of, d, st)
                /\ UNCHANGED <<fs, panicked>>
           ELSE IF st.adi = <<>>
           THEN /\ ExportReturn(t, c, export_state.of,
                                ExportErr(<<"ADI is not initialized">>), st)
                /\ UNCHANGED <<fs, panicked>>
           ELSE IF c.name = "set_identifier" /\ d.value.identifier = <<>>
           THEN /\ ExportReturn(t, c, export_state.of, ExportOk(0), st)
                /\ UNCHANGED <<fs, panicked>>
           ELSE \E w \in {PrepareCall(c.name,
                                      World(st.adi[1].uc, fs, TRUE,
                                            CHOOSE now \in Clocks : TRUE, overflow_checks),
                                      st.adi[1].adi.p[1], d.value)} :
                IF w.err \notin {"none", "panic"}
                THEN /\ ExportReturn(t, c, export_state.of,
                                     ExportErr(MethodMessage(c.name, w.err)),
                                     [st EXCEPT !.adi = <<[uc |-> w.uc, adi |-> st.adi[1].adi]>>])
                     /\ UNCHANGED <<fs, panicked>>
                ELSE /\ AdiStart(c.name, w, st.adi[1].adi)
                     /\ export_state' =
                            [export_state EXCEPT !.call =
                                [name |-> c.name, thread |-> t, call |-> c,
                                 pre |-> export_state.of]]
    /\ UNCHANGED <<prov, overflow_checks, allocator, alloc_returns>>

\* invoke_cdecl has returned to the method the operation in flight called:
\* Adi::new goes on to its next call or the Adi is installed; a method
\* returns and the wrapper stores what it returned
ExportFinish ==
    /\ Ready
    /\ export_state.call # NoExport
    /\ adi.call # NoCall
    /\ result.op = "invoke_cdecl"
    /\ \E o \in {IF result.err # "none" THEN Outcome(result.err, "", 0, <<>>, <<>>)
                 ELSE AdiOutcome(uc, adi.call, result.value)},
          t \in {export_state.call.thread},
          c \in {export_state.call.call},
          pre \in {export_state.call.pre} :
           IF ~adi.ctor
           THEN /\ ExportReturn(t, c, pre, MethodReturn(c.name, o),
                                AfterMethod([export_state.of[t] EXCEPT !.adi =
                                                <<[uc |-> uc,
                                                   adi |-> [adi EXCEPT !.call = NoCall]]>>],
                                            c.name, o))
                /\ UNCHANGED <<fs, panicked>>
           ELSE IF o.err # "none"
           THEN /\ ExportReturn(t, c, pre, ExportErr(<<"ADI init failed: ", o.err>>),
                                export_state.of[t])
                /\ UNCHANGED <<fs, panicked>>
           ELSE \E next \in {CtorNext(adi.call.method, adi.init[1])} :
                IF next = "done"
                THEN /\ ExportReturn(t, c, pre, ExportOk(0),
                                     install_adi(export_state.of[t],
                                                 [uc |-> uc,
                                                  adi |-> [adi EXCEPT !.made = TRUE,
                                                                      !.ctor = FALSE,
                                                                      !.call = NoCall]]))
                     /\ UNCHANGED <<fs, panicked>>
                ELSE \E w \in {PrepareCall(next, HostWorld, adi.p[1],
                                   [CtorArg(adi.init[1]) EXCEPT !.path =
                                       IF next = "set_provisioning_path"
                                       THEN adi.init[1].provisioning_path[1] ELSE @])} :
                     IF w.err \notin {"none", "panic"}
                     THEN /\ ExportReturn(t, c, pre,
                                          ExportErr(<<"ADI init failed: ", w.err>>),
                                          export_state.of[t])
                          /\ UNCHANGED <<fs, panicked>>
                     ELSE AdiStart(next, w, adi) /\ UNCHANGED export_state
    /\ UNCHANGED <<prov, overflow_checks, allocator, alloc_returns>>

\* thread t calls fs_write_file, fs_read_file or idbfs_sync
ExportFile(t, c, host_ok) ==
    /\ c.name \in FsOps
    /\ ~panicked /\ emu.phase = "idle" /\ export_state.call = NoExport
    /\ \E st \in {export_state.of[t]},
          w \in {World(NoVm, fs, host_ok, CHOOSE now \in Clocks : TRUE, overflow_checks)} :
           CASE c.name = "fs_write_file" ->
                    \E path \in {c_string(c.strs[1])}, data \in {input_bytes(c.blobs[1])} :
                        IF path.err # <<>>
                        THEN ExportReturn(t, c, export_state.of, path, st) /\ fs' = fs
                        ELSE IF data.err # <<>>
                        THEN ExportReturn(t, c, export_state.of, data, st) /\ fs' = fs
                        ELSE \E w1 \in {IF path.value # <<>> /\ HasParent(path.value)
                                        THEN create_dir_all(w, Parent(path.value))
                                        ELSE w} :
                             IF w1.err # "none"
                             THEN /\ ExportReturn(t, c, export_state.of,
                                        ExportErr(<<"failed to create dir '",
                                                    Parent(path.value), "': ", w1.err>>), st)
                                  /\ fs' = w1.fs
                             ELSE \E w2 \in {fs_write(w1, path.value, data.value)} :
                                  /\ ExportReturn(t, c, export_state.of,
                                        IF w2.err = "none" THEN ExportOk(0)
                                        ELSE ExportErr(<<"failed to write '", path.value,
                                                         "': ", w2.err>>), st)
                                  /\ fs' = w2.fs
             [] c.name = "fs_read_file" ->
                    \E data \in {ExportTry(c_string(c.strs[1]), LAMBDA path :
                                     IF fs_read(fs, host_ok, path).err = <<>>
                                     THEN fs_read(fs, host_ok, path)
                                     ELSE ExportErr(<<"failed to read '", path, "': ",
                                                      "Io">>))} :
                        /\ ExportReturn(t, c, export_state.of,
                                        IF data.err = <<>> THEN ExportOk(0) ELSE data,
                                        IF data.err = <<>>
                                        THEN [st EXCEPT !.read_buf = data.value] ELSE st)
                        /\ fs' = fs
             [] OTHER ->
                    ExportReturn(t, c, export_state.of, ExportOk(0), st) /\ fs' = fs
    /\ UNCHANGED <<prov, overflow_checks, allocator, alloc_returns, panicked>>

\* the getters: the length of a buffer, the session, and the pointer, which
\* is modelled by the bytes it points at
Getters == {"cpim", "session", "otp", "mid", "fs_read", "last_error"}

ExportGet(t, getter) ==
    /\ ~panicked /\ emu.phase = "idle" /\ export_state.call = NoExport
    /\ result' = [op |-> "getter", thread |-> t, getter |-> getter, pre |-> export_state.of,
                  value |-> CASE getter = "cpim" -> export_state.of[t].cpim
                              [] getter = "session" -> export_state.of[t].session
                              [] getter = "otp" -> export_state.of[t].otp
                              [] getter = "mid" -> export_state.of[t].mid
                              [] getter = "fs_read" -> export_state.of[t].read_buf
                              [] OTHER -> export_state.of[t].last_error]
    /\ UNCHANGED <<adi, prov, overflow_checks, export_state, panicked, allocator,
                   alloc_returns, uc, fs, emu, steps>>

---------------------------------------------------------------------------
(* SpecExports: a thread that calls the exported operations with valid and *)
(* invalid arguments and a second thread that calls operations that need   *)
(* the Adi; the guest code behind an entry point stores results or not and *)
(* returns 0, 1 or (to is_machine_provisioned) -45061                      *)

MaxExportCalls == 3

\* the process before any thread has called an operation
InitExports ==
    /\ overflow_checks \in BOOLEAN
    /\ panicked = FALSE
    /\ allocator = Allocator_new(U64Zero, U64Zero)
    /\ alloc_returns = <<>>
    /\ uc = NoVm
    /\ fs = ExportFs
    /\ emu = Idle
    /\ result = NoResult
    /\ steps = 0
    /\ adi = NoAdi
    /\ prov = NoSession
    /\ export_state = NoExports

\* init_from_blobs with the images, with bytes that are no image, with a
\* null image pointer and with a null library path; init_from_files with
\* the paths of the images
ExportInits ==
    { ExportCallOf("init_from_blobs", <<library_path, NullStr, NullStr>>,
                   <<image, BytesPtr(IMAGE_COREADI)>>, U64Zero) :
        library_path \in {CStr(PATH_LIB)},
        image \in {BytesPtr(IMAGE_STORESERVICES), BytesPtr(IMAGE_GARBAGE), NullBytes(5)} }
    \cup
    { ExportCallOf("init_from_blobs", <<NullStr, NullStr, NullStr>>,
                   <<BytesPtr(IMAGE_STORESERVICES), BytesPtr(IMAGE_COREADI)>>, U64Zero),
      ExportCallOf("init_from_files",
                   <<CStr(PATH_SS_FILE), CStr(PATH_CA_FILE), CStr(PATH_LIB), NullStr, NullStr>>,
                   <<>>, U64Zero) }

ExportMethods ==
    { ExportCallOf("set_identifier", <<identifier>>, <<>>, U64Zero) :
        identifier \in {CStr(TEXT_ID), CStr(<<>>), CStr(<<255>>), NullStr} }
    \cup
    { ExportCallOf("set_provisioning_path", <<path>>, <<>>, U64Zero) :
        path \in {CStr(PATH_ANISETTE), NullStr} }
    \cup
    { ExportCallOf("start_provisioning", <<>>, <<spim>>, U64FromNat(5)) :
        spim \in {BytesPtr(<<1, 2, 3>>), NullBytes(0), NullBytes(3)} }
    \cup
    { ExportCallOf("end_provisioning", <<>>, <<ptm, BytesPtr(<<5, 6>>)>>, <<7, 0, 0, 0>>) :
        ptm \in {BytesPtr(<<4>>), NullBytes(1)} }
    \cup
    { ExportCallOf("is_machine_provisioned", <<>>, <<>>, U64FromNat(5)),
      ExportCallOf("request_otp", <<>>, <<>>, U64FromNat(5)) }

ExportFiles ==
    { ExportCallOf("fs_write_file", <<path>>, <<BytesPtr(<<9>>)>>, U64Zero) :
        path \in {CStr(PATH_F), CStr(<<>>), NullStr} }
    \cup
    { ExportCallOf("fs_read_file", <<CStr(PATH_F)>>, <<>>, U64Zero),
      ExportCallOf("idbfs_sync", <<>>, <<>>, U64One) }

\* the calls of the second thread, which never calls an init operation
SecondThreadCalls ==
    { ExportCallOf("set_identifier", <<CStr(TEXT_ID)>>, <<>>, U64Zero),
      ExportCallOf("is_machine_provisioned", <<>>, <<>>, U64FromNat(5)),
      ExportCallOf("request_otp", <<>>, <<>>, U64FromNat(5)) }

\* what the guest stores for the call in flight: the results of
\* OutputWrites with the number k in the first byte (and as the session)
ExportOutputs(call, k) ==
    [OutputWrites(call) EXCEPT ![1].bytes = [@ EXCEPT ![1] = k],
                               ![4].bytes = IF call.method = "start_provisioning"
                                            THEN U32ToLeBytes(k) ELSE @]

NextExports ==
    \/ \E c \in ExportInits, host_ok \in BOOLEAN :
           /\ steps < MaxExportCalls
           /\ ~host_ok => c.name = "init_from_files"
           /\ ExportInit(1, c, host_ok)
           /\ steps' = steps + 1
    \/ \E t \in Threads, c \in ExportMethods :
           /\ steps < MaxExportCalls
           /\ t = 2 => c \in SecondThreadCalls
           /\ ExportMethod(t, c)
           /\ steps' = steps + 1
    \/ \E c \in ExportFiles, host_ok \in BOOLEAN :
           /\ steps < MaxExportCalls
           /\ ~host_ok => c.strs = <<CStr(PATH_F)>>
           /\ ExportFile(1, c, host_ok)
           /\ steps' = steps + 1
    \/ \E getter \in Getters : result.op = "export" /\ ExportGet(result.thread, getter)
    \/ /\ adi.call.method \in {"start_provisioning", "request_otp"}
       /\ result.op = "emu_start"
       /\ GuestStores(ExportOutputs(adi.call, steps))
    \/ \E value \in {U64Zero, U64One, <<0, 0, Limb - 1, \h4FFB>>} :
           /\ value[3] # 0 => adi.call.method = "is_machine_provisioned"
           /\ GuestReturn(value)
    \/ EmuReturn
    \/ ExportFinish /\ UNCHANGED steps

SpecExports == InitExports /\ [][NextExports]_vars


---------------------------------------------------------------------------
(* Claims about the C-ABI wrapper (SpecExports)                            *)

\* an exported operation has just returned
ExportReturned == result.op = "export"

\* the state of the calling thread after the operation and before it
StateAfter == export_state.of[result.thread]
StateBefore == result.pre[result.thread]

\* the operation needs the Adi and the calling thread has none installed
NeedsMissingAdi ==
    /\ result.call.name \in AdiOps
    /\ StateBefore.adi = <<>>

\* the return value is -1 with a message exactly when the operation failed,
\* and else it is not negative and the message is empty
ReturnTellsFailure ==
    IF result.failed THEN result.ret = -1 /\ StateAfter.last_error # <<>>
    ELSE result.ret >= 0 /\ StateAfter.last_error = <<>>

\* a getter has left the state of every thread as it was
GetterChangesNothing == result.op = "getter" => export_state.of = result.pre

\* C37 as stated: every exported operation returns -1 with a non-empty
\* last_error exactly when it failed and a non-negative value with an empty
\* last_error when it succeeded; an operation that needs the Adi returns -1
\* with "ADI is not initialized" whenever the calling thread has no Adi
\* installed; the getters never change last_error
C37_ExportErrorsAsStated ==
    /\ ExportReturned =>
           /\ ReturnTellsFailure
           /\ NeedsMissingAdi =>
                  /\ result.ret = -1
                  /\ StateAfter.last_error = <<"ADI is not initialized">>
    /\ GetterChangesNothing

\* C37: every exported operation returns -1 with a non-empty last_error
\* exactly when it failed and a non-negative value with an empty last_error
\* when it succeeded; an operation that needs the Adi, called on a thread
\* that has no Adi installed, returns -1, with the message of the argument
\* it could not decode (a null string, a string that is not UTF-8, a null
\* pointer with a length) and else with "ADI is not initialized"; the
\* getters change nothing
C37_ExportErrors ==
    /\ ExportReturned =>
           /\ ReturnTellsFailure
           /\ NeedsMissingAdi =>
                  /\ result.ret = -1
                  /\ StateAfter.last_error =
                         IF DecodeMethod(result.call).err # <<>>
                         THEN DecodeMethod(result.call).err
                         ELSE <<"ADI is not initialized">>
    /\ GetterChangesNothing

\* the first thread has an Adi installed and the second thread, which has
\* none, has called request_otp
C37_Witness ==
    /\ ExportReturned
    /\ result.thread = 2
    /\ result.call.name = "request_otp"
    /\ result.pre[1].adi # <<>>
    /\ result.ret = -1
    /\ StateAfter.last_error = <<"ADI is not initialized">>


\* the four values the getters expose besides the file buffer
Exposed(st) == <<st.cpim, st.session, st.otp, st.mid>>

\* the operation that has just returned was the one named and succeeded
Succeeded(names) == result.call.name \in names /\ ~result.failed

\* what the guest stored for the call that has just returned (the call
\* number is in the first byte and in the session)
StoredCpim == <<steps, 2>>
StoredSession == U32ToLeBytes(steps)
StoredOtp == <<steps, 2>>
StoredMid == <<3, 4>>

\* C38: when an exported operation returns, the state of every other
\* thread is as it was; after a successful init cpim, otp and machine id
\* are empty and session is 0; after a successful start_provisioning cpim
\* and session are what the guest stored for this call and otp and machine
\* id are as they were; after a successful request_otp otp and machine id
\* are what the guest stored and cpim and session are as they were; after
\* every other operation, failed ones included, all four are as they were;
\* a failed init leaves the installed Adi (its emulator and entry points)
\* as it was
C38_ExportBuffers ==
    ExportReturned =>
        /\ \A t \in Threads \ {result.thread} : export_state.of[t] = result.pre[t]
        /\ IF Succeeded(InitOps)
           THEN /\ Exposed(StateAfter) = << <<>>, <<0, 0, 0, 0>>, <<>>, <<>> >>
                /\ StateAfter.adi # <<>>
           ELSE IF Succeeded({"start_provisioning"})
           THEN Exposed(StateAfter)
                    = <<StoredCpim, StoredSession, StateBefore.otp, StateBefore.mid>>
           ELSE IF Succeeded({"request_otp"})
           THEN Exposed(StateAfter)
                    = <<StateBefore.cpim, StateBefore.session, StoredOtp, StoredMid>>
           ELSE Exposed(StateAfter) = Exposed(StateBefore)
        /\ (result.call.name \in InitOps /\ result.failed) =>
               StateAfter.adi = StateBefore.adi

\* after a successful init and a successful start_provisioning, the second
\* call, a third call has failed, a start_provisioning or an init that got
\* as far as its guest call, and the getters still expose the cpim and the
\* session of the second call
C38_Witness ==
    /\ ExportReturned
    /\ steps = 3
    /\ result.failed
    /\ result.call.name \in InitOps \cup {"start_provisioning"}
    /\ StateBefore.adi # <<>>
    /\ StateAfter.adi # <<>>
    /\ StateAfter.cpim = <<2, 2>>
    /\ StateAfter.session = U32ToLeBytes(2)
    /\ StateAfter.last_error \in
           { <<"ADI init failed: ", "AdiCallFailed">>,
             <<"start_provisioning failed: ", "AdiCallFailed">> }

=============================================================================
